---- MODULE Spec2Model ----
(***************************************************************************)
(* Hazmapper QGIS plugin: the fetch task (LoadGeoApiProjectTask), the dock *)
(* widget that collects its step results and starts materialization, and   *)
(* the feature-layer materializer (add_features_layers).                   *)
(*                                                                         *)
(* Spec      the plugin as shipped: load requests come from the project    *)
(*           selector, whose controls are disabled while a load runs.      *)
(* SpecSlot  the dock widget driven through its slot handle_load_request   *)
(*           directly, at any time and with any URL.                       *)
(* SpecFeat  add_features_layers on bounded feature collections.           *)
(***************************************************************************)
EXTENDS Integers, Sequences, FiniteSets, TLC

\* ------------------------------------------------------------------ bounds
\* Number of load requests (each creates one LoadGeoApiProjectTask).
MaxLoads == 2

Tasks == 1..MaxLoads

\* ------------------------------------------------------------- enumerations
\* class GeoApiTaskState
RUNNING == "running"
DONE == "done"
FAILED == "failed"

\* class GeoApiStep
PROJECT == "project"
BASEMAP_LAYERS == "basemap_layers"
FEATURES == "features"

\* run() with the basemap and the features step exchanged.
StepOrderFeaturesFirst == <<PROJECT, FEATURES, BASEMAP_LAYERS>>

\* An order in which the project step is run twice.
StepOrderRetrying == <<PROJECT, PROJECT, BASEMAP_LAYERS, FEATURES>>

\* The order in which run() works through the steps.
StepOrder == <<PROJECT, BASEMAP_LAYERS, FEATURES>>

Steps == {PROJECT, BASEMAP_LAYERS, FEATURES}

\* user_description passed to _request_data_from_backend for each step.
Description(step) ==
  CASE step = PROJECT -> "project metadata"
    [] step = BASEMAP_LAYERS -> "map data (basemap/tile layers)"
    [] step = FEATURES -> "map data (features)"

\* ------------------------------------------------------------ JSON values
\* A parsed JSON value is a list or a dict with its items; None has none.
JList(items) == [type |-> "list", items |-> items]
JDict(items) == [type |-> "dict", items |-> items]
None == [type |-> "none", items |-> <<>>]

\* A test that takes every dict, also an empty one, for a result.
TruthyAnyDict(v) == v.type = "dict" \/ Len(v.items) > 0

\* Python truthiness of a parsed value: None and empty containers are falsy.
Truthy(v) == Len(v.items) > 0

\* A string value that is None (self.error before any request failed).
NoneStr == <<"None">>

\* f"Fetching {user_description} failed: {str(e)}"
ErrorMessage(desc, cause) == <<"Fetching", desc, "failed:", cause>>

\* Bodies the backend may answer a step's GET with (HTTP 200, valid JSON).
Bodies(step) ==
  CASE step = PROJECT ->
         {JList(<<>>),
          JList(<<[id |-> 2, name |-> <<"T", "P">>,
                   uuid |-> <<"u", "u", "i", "d", "-", "1", "2", "3", "4">>],
                  [id |-> 1]>>)}
    [] step = BASEMAP_LAYERS ->
         {JList(<<>>), JList(<<[name |-> "B"]>>)}
    [] step = FEATURES ->
         {JDict(<<>>), JDict(<<[key |-> "features"]>>)}

\* What urlopen/json.loads can do with one request.
Responses(step) ==
  [kind : {"ok"}, body : Bodies(step)]
    \cup [kind : {"transport", "http", "json"}, body : {None}]

\* str(e) of the exception each failing response raises.
Cause(resp) ==
  CASE resp.kind = "transport" -> "URLError"
    [] resp.kind = "http" -> "HTTP 404"
    [] resp.kind = "json" -> "JSONDecodeError"

\* URLs a load can be requested with, as their path segments.
ValidUrl == <<"hazmapper", "project-public", "u1">>
InvalidUrl == <<"hazmapper", "project", "u1">>
Urls == {ValidUrl, InvalidUrl}

\* "/project-public/" in url
is_valid_url(url) == \E i \in 1..Len(url) : url[i] = "project-public"

VARIABLES
  \* ---- fetch tasks (background workers)
  tasks,            \* task -> [pc, step, project_id, error, result]
  tlog,             \* task -> what the task did, in order
  task_done,        \* task -> the task_done emissions of finished()
  cancelRequested,  \* task -> cancel() has been called on it
  \* ---- the UI thread
  uiQueue,          \* events posted to the UI thread, in posting order
  step_data,        \* HazmapperPluginDockWidget._step_data
  active_task,      \* HazmapperPluginDockWidget.active_task (0: None)
  current_project_url,
  loading,          \* ProjectSelector controls disabled (set_loading_state)
  status,           \* MapStatus icon and message
  matStack,         \* _process_all_steps calls in progress (innermost last)
  matLog,           \* every _process_all_steps call, with the payloads it took
  canvas,           \* the map canvas frozen, the project's signals blocked,
                    \* and the calls of canvas.refresh()
  main_group,       \* HazmapperPluginDockWidget.main_group (0: None)
  root,             \* children of the layer-tree root (groups, top first)
  internal_group_uuid, \* QSettings HazmapperPlugin/internal_group_uuid (0: unset)
  map_layers,       \* ids of the layers registered with QgsProject.instance()
  tree_log          \* history: every change of the root's children

taskVars == <<tasks, tlog, task_done, cancelRequested>>
dockVars == <<step_data, active_task, current_project_url, loading, status,
              matStack, matLog, canvas, main_group, root, internal_group_uuid,
              map_layers, tree_log>>
loadVars == <<taskVars, uiQueue, dockVars>>


\* ------------------------------------------------------------ small helpers
\* dict[key] = value
Put(d, key, value) ==
  [k \in DOMAIN d \cup {key} |-> IF k = key THEN value ELSE d[k]]

\* An empty dict.
EmptyDict == [k \in {} |-> None]

\* A sequence without its element at position i.
RemoveAt(s, i) == [j \in 1..(Len(s) - 1) |-> IF j < i THEN s[j] ELSE s[j + 1]]

\* Tasks created so far (task k is the k-th LoadGeoApiProjectTask).
NumTasks == Cardinality({t \in Tasks : tasks[t].pc # "none"})

\* ------------------------------------------------------------ the fetch task
\* LoadGeoApiProjectTask.__init__
NewTask(uuid) ==
  [pc |-> "ready", step |-> 1, uuid |-> uuid, project_id |-> 0,
   error |-> NoneStr, result |-> "unset"]

NoTask ==
  [pc |-> "none", step |-> 1, uuid |-> "", project_id |-> 0,
   error |-> NoneStr, result |-> "unset"]

\* An entry of a task's log: a signal it emitted, a request it issued or the
\* response it got (out: how the request ended; value: the body or payload).
Logged(ev, step, pid, out, value) ==
  [ev |-> ev, step |-> step, pid |-> pid, out |-> out, value |-> value]

\* How a request ended, as the orchestrator sees it: a 200 response with a
\* falsy body is "empty".
Outcome(resp) ==
  IF resp.kind # "ok" THEN resp.kind
  ELSE IF Len(resp.body.items) = 0 THEN "empty" ELSE "ok"

\* A helper whose except clause takes the status exception alone.
request_data_catching_status_only(error, user_description, resp) ==
  IF resp.kind = "ok"
    THEN [result |-> resp.body, error |-> error, raised |-> FALSE]
    ELSE [result |-> None,
          error |-> IF resp.kind = "http"
                      THEN ErrorMessage(user_description, Cause(resp))
                      ELSE error,
          raised |-> resp.kind # "http"]

\* The try block of _request_data_from_backend on one response: the parsed
\* value it returns, the value self.error has afterwards, and whether an
\* exception leaves the helper (except Exception takes whatever urlopen, the
\* status test, read/decode and json.loads raise).
request_data_from_backend(error, user_description, resp) ==
  IF resp.kind = "ok"
    THEN [result |-> resp.body, error |-> error, raised |-> FALSE]
    ELSE [result |-> None,
          error |-> ErrorMessage(user_description, Cause(resp)),
          raised |-> FALSE]

\* run() taking the last project of the response instead of the first.
StepPayloadLast(step, result) ==
  IF step = PROJECT THEN result.items[Len(result.items)] ELSE result

\* The payload run() emits for a step: projects[0] for the project step,
\* the parsed value itself for the others.
StepPayload(step, result) ==
  IF step = PROJECT THEN result.items[1] ELSE result

\* run(), first half of a step: _request_data_from_backend emits the RUNNING
\* status and issues the GET; the worker then blocks in urlopen.
RequestBegin(t) ==
  LET tk == tasks[t]
      step == StepOrder[tk.step]
  IN
  /\ tk.pc = "ready"
  /\ tasks' = [tasks EXCEPT ![t].pc = "inflight"]
  /\ tlog' = [tlog EXCEPT ![t] = @ \o
                <<Logged("status_update", step, 0, "", None),
                  Logged("request", step, tk.project_id, "", None)>>]
  /\ uiQueue' = Append(uiQueue,
                  [sig |-> "status_update", task |-> t, step |-> step,
                   payload |-> None, success |-> FALSE])
  /\ UNCHANGED <<task_done, cancelRequested, dockVars>>

\* run(), second half of a step: the request returns or fails; run() either
\* returns False, or emits the step result and goes on (returning True after
\* the features step).  QgsTask posts the call of finished() to the UI thread
\* when run() has returned.
RequestEnd(t, resp) ==
  LET tk == tasks[t]
      step == StepOrder[tk.step]
      got == request_data_from_backend(tk.error, Description(step), resp)
      finishedEv(ok) == [sig |-> "finished", task |-> t, step |-> step,
                         payload |-> None, success |-> ok]
  IN
  /\ tk.pc = "inflight"
  /\ IF got.raised
       THEN /\ tasks' = [tasks EXCEPT ![t] =
                 [@ EXCEPT !.pc = "raised", !.error = got.error,
                           !.result = "false"]]
            /\ tlog' = [tlog EXCEPT ![t] = Append(@,
                 Logged("response", step, 0, Outcome(resp), resp.body))]
            /\ uiQueue' = Append(uiQueue, finishedEv(FALSE))
     ELSE IF ~Truthy(got.result)
       THEN /\ tasks' = [tasks EXCEPT ![t] =
                 [@ EXCEPT !.pc = "returned", !.error = got.error,
                           !.result = "false"]]
            /\ tlog' = [tlog EXCEPT ![t] = Append(@,
                 Logged("response", step, 0, Outcome(resp), resp.body))]
            /\ uiQueue' = Append(uiQueue, finishedEv(FALSE))
       ELSE LET payload == [task |-> t, step |-> step,
                            value |-> StepPayload(step, got.result)]
                pid == IF step = PROJECT
                         THEN payload.value.id ELSE tk.project_id
                last == tk.step = Len(StepOrder)
            IN
            /\ tasks' = [tasks EXCEPT ![t] =
                 [@ EXCEPT !.pc = IF last THEN "returned" ELSE "ready",
                           !.step = IF last THEN @ ELSE @ + 1,
                           !.project_id = pid,
                           !.error = got.error,
                           !.result = IF last THEN "true" ELSE @]]
            /\ tlog' = [tlog EXCEPT ![t] = @ \o
                 <<Logged("response", step, 0, Outcome(resp), resp.body),
                   Logged("progress_data", step, 0, "", payload.value)>>]
            /\ uiQueue' = uiQueue \o
                 <<[sig |-> "progress_data", task |-> t, step |-> step,
                    payload |-> payload, success |-> FALSE]>>
                 \o (IF last THEN <<finishedEv(TRUE)>> ELSE <<>>)
  /\ UNCHANGED <<task_done, cancelRequested, dockVars>>

\* LoadGeoApiProjectTask.cancel: logs and returns True; neither the base
\* class is called nor any flag set that run() reads.
cancel(t) ==
  /\ cancelRequested' = [cancelRequested EXCEPT ![t] = TRUE]
  /\ UNCHANGED <<tasks, tlog, task_done>>


\* ------------------------------------------------------------ the dock widget
\* MapStatus.set_running / set_success / set_error
set_running(message) == [icon |-> "running", message |-> message]
set_success(message) == [icon |-> "success", message |-> message]
set_error(message) == [icon |-> "error", message |-> message]

LoadedMessage == <<"Hazmapper map loaded successfully.">>

\* A finally clause that unblocks the signals and refreshes, and leaves the
\* canvas frozen.
release_signals_only(c) ==
  [c EXCEPT !.signals_blocked = FALSE, !.refreshes = @ + 1]

\* canvas.freeze(True); project.blockSignals(True)
freeze_and_block(c) == [c EXCEPT !.frozen = TRUE, !.signals_blocked = TRUE]

\* finally: project.blockSignals(False); canvas.freeze(False);
\* canvas.refresh()
release_and_refresh(c) ==
  [c EXCEPT !.signals_blocked = FALSE, !.frozen = FALSE, !.refreshes = @ + 1]

\* HazmapperPluginDockWidget.update_status
update_status(geoapi_state, message) ==
  IF geoapi_state = RUNNING
    THEN status' = set_running(message) /\ loading' = TRUE
  ELSE IF geoapi_state = DONE
    THEN status' = set_success(LoadedMessage) /\ loading' = FALSE
  ELSE IF geoapi_state = FAILED
    THEN status' = set_error(message) /\ loading' = FALSE
  ELSE status' = set_error(<<"Unknown state">>) /\ loading' = FALSE

\* dict.get(key, default)
get(d, key, default) == IF key \in DOMAIN d THEN d[key] ELSE default

\* A group node of the layer tree: the custom property
\* hazmapper_qgis_internal_group_uuid (0: the group has none), its name, the
\* custom property hazmapper_project_uuid and the ids of the layers below it
\* (findLayers).
GroupNodeOf(id, name, project_uuid, layer_ids) ==
  [id |-> id, name |-> name, project_uuid |-> project_uuid,
   layers |-> layer_ids]

\* The entry tree_log gets for a call of op with args, when the call changed
\* the children of the root.
Changes(op, args) ==
  IF root' = root THEN tree_log
  ELSE Append(tree_log,
         [op |-> op, args |-> args, before |-> root, after |-> root',
          persisted |-> internal_group_uuid,
          persisted_after |-> internal_group_uuid',
          unregistered |-> map_layers \ map_layers',
          result |-> main_group'])

\* The entries of tree_log made by op.
EventsOf(op) == {k \in 1..Len(tree_log) : tree_log[k].op = op}

\* uuid.uuid4(): an id no earlier call returned; groups are numbered in the
\* order of their creation.
uuid4 == 1 + Cardinality(EventsOf("create_main_group"))

\* A removal that takes every group the plugin created.
remove_every_tagged_group ==
  IF internal_group_uuid # 0
    THEN LET gone == {i \in 1..Len(root) : root[i].id # 0}
             keep(g) == g.id = 0
         IN /\ root' = SelectSeq(root, keep)
            /\ map_layers' =
                 map_layers \ UNION {root[i].layers : i \in gone}
            /\ internal_group_uuid' = IF gone = {} THEN internal_group_uuid
                                      ELSE 0
    ELSE UNCHANGED <<root, internal_group_uuid, map_layers>>

\* remove_previous_main_group: removes the first child of the root that is a
\* group whose internal id is the persisted one, after unregistering the
\* layers below it, and clears the persisted id; does nothing when no id is
\* persisted or no child matches.
remove_previous_main_group ==
  IF internal_group_uuid # 0
       /\ \E i \in 1..Len(root) : root[i].id = internal_group_uuid
    THEN LET i == CHOOSE j \in 1..Len(root) :
                    /\ root[j].id = internal_group_uuid
                    /\ \A k \in 1..(j - 1) : root[k].id # internal_group_uuid
         IN /\ map_layers' = map_layers \ root[i].layers
            /\ root' = RemoveAt(root, i)
            /\ internal_group_uuid' = 0
    ELSE UNCHANGED <<root, internal_group_uuid, map_layers>>

\* url.split("/project-public/")[1].split("/")[0]
ParseUuid(url) ==
  LET i == CHOOSE j \in 1..Len(url) : url[j] = "project-public"
  IN IF i < Len(url) THEN url[i + 1] ELSE ""

\* handle_load_request once the uuid is parsed: the URL is kept, the
\* controls are disabled, the previous group is removed if asked for, and
\* the task is created and handed to the task manager.
start_load(url, remove_previous_map) ==
  LET t == NumTasks + 1 IN
  /\ current_project_url' = url
  /\ loading' = TRUE
  /\ status' = set_running(<<"">>)
  /\ IF remove_previous_map
       THEN remove_previous_main_group
       ELSE UNCHANGED <<root, internal_group_uuid, map_layers>>
  /\ tasks' = [tasks EXCEPT ![t] = NewTask(ParseUuid(url))]
  /\ active_task' = t
  /\ UNCHANGED <<tlog, task_done, cancelRequested, uiQueue, step_data,
                 matStack, matLog, canvas, main_group>>
  /\ tree_log' = Changes("handle_load_request", <<remove_previous_map>>)

\* A handle_load_request that removes the previous group, if asked to,
\* before it parses the URL.
handle_load_request_removing_first(url, remove_previous_map) ==
  IF ~is_valid_url(url)
    THEN /\ update_status(FAILED, <<"Invalid project URL format.">>)
         /\ IF remove_previous_map
              THEN remove_previous_main_group
              ELSE UNCHANGED <<root, internal_group_uuid, map_layers>>
         /\ UNCHANGED <<taskVars, uiQueue, step_data, active_task,
                        current_project_url, matStack, matLog, canvas,
                        main_group>>
         /\ tree_log' = Changes("handle_load_request", <<remove_previous_map>>)
    ELSE start_load(url, remove_previous_map)

\* HazmapperPluginDockWidget.handle_load_request: a URL without
\* "/project-public/" makes the split raise IndexError.
handle_load_request(url, remove_previous_map) ==
  IF ~is_valid_url(url)
    THEN /\ update_status(FAILED, <<"Invalid project URL format.">>)
         /\ UNCHANGED <<taskVars, uiQueue, step_data, active_task,
                        current_project_url, matStack, matLog, canvas,
                        main_group, root, internal_group_uuid, map_layers,
                        tree_log>>
    ELSE start_load(url, remove_previous_map)

\* Characters of the strings create_main_group is called with.
Unnamed == <<"U", "n", "n", "a", "m", "e", "d">>
unknown == <<"u", "n", "k", "n", "o", "w", "n">>

\* A slice that takes the whole string.
str_whole(str, n) == str

\* str[:n]
str_prefix(str, n) == SubSeq(str, 1, IF Len(str) < n THEN Len(str) ELSE n)

\* f"{project_name} ({project_uuid[:8]})"
group_name(project_name, project_uuid) ==
  project_name \o <<" ", "(">> \o str_prefix(project_uuid, 8) \o <<")">>

\* A creation that first drops what the root holds.
create_main_group_replacing(internal_uuid, project_name, project_uuid) ==
  /\ root' = <<GroupNodeOf(internal_uuid,
                  group_name(project_name, project_uuid), project_uuid, {})>>
  /\ internal_group_uuid' = internal_uuid
  /\ main_group' = internal_uuid

\* create_main_group: a new, empty group named after the project, tagged
\* with the project uuid and a fresh internal id, at position 0 of the
\* root; the internal id is persisted and the group returned (main_group
\* holds the internal id of the group the dock widget refers to).
create_main_group(internal_uuid, project_name, project_uuid) ==
  /\ root' = <<GroupNodeOf(internal_uuid,
                  group_name(project_name, project_uuid), project_uuid, {})>>
              \o root
  /\ internal_group_uuid' = internal_uuid
  /\ main_group' = internal_uuid

\* _process_all_steps leaving the payloads in the store.
process_all_steps_keeping(stored) ==
  LET n == Len(matLog) + 1
      project_data == stored[PROJECT].value
      args == <<get(project_data, "name", Unnamed),
                get(project_data, "uuid", unknown)>>
  IN
  /\ step_data' = stored
  /\ create_main_group(uuid4, args[1], args[2])
  /\ UNCHANGED map_layers
  /\ tree_log' = Changes("create_main_group", args)
  /\ status' = set_running(<<"Adding basemap layers...">>)
  /\ matLog' = Append(matLog,
       [project |-> stored[PROJECT], basemap |-> stored[BASEMAP_LAYERS],
        features |-> stored[FEATURES], had |-> DOMAIN stored])
  /\ matStack' = Append(matStack, n)
  /\ canvas' = freeze_and_block(canvas)

\* HazmapperPluginDockWidget._process_all_steps up to the first cooperative
\* yield inside add_basemap_layers: takes the three payloads out of the
\* store, clears it and creates the main group.
process_all_steps(stored) ==
  LET n == Len(matLog) + 1
      project_data == stored[PROJECT].value
      args == <<get(project_data, "name", Unnamed),
                get(project_data, "uuid", unknown)>>
  IN
  /\ step_data' = EmptyDict
  /\ create_main_group(uuid4, args[1], args[2])
  /\ UNCHANGED map_layers
  /\ tree_log' = Changes("create_main_group", args)
  /\ status' = set_running(<<"Adding basemap layers...">>)
  /\ matLog' = Append(matLog,
       [project |-> stored[PROJECT], basemap |-> stored[BASEMAP_LAYERS],
        features |-> stored[FEATURES], had |-> DOMAIN stored])
  /\ matStack' = Append(matStack, n)
  /\ canvas' = freeze_and_block(canvas)

\* The assignment self._step_data[geoapi_step] = result.
store_step(d, geoapi_step, result) == Put(d, geoapi_step, result)

\* HazmapperPluginDockWidget.on_load_data
on_load_data(geoapi_step, result) ==
  LET stored == store_step(step_data, geoapi_step, result) IN
  IF Steps \subseteq DOMAIN stored
    THEN process_all_steps(stored)
    ELSE /\ step_data' = stored
         /\ UNCHANGED <<status, matStack, matLog, canvas, main_group, root,
                        internal_group_uuid,
                 map_layers, tree_log>>

\* LoadGeoApiProjectTask.finished, with the slot it reaches,
\* HazmapperPluginDockWidget.on_load_geoapi_project_done.  task_done is
\* declared pyqtSignal(bool, str): emitting None for the str raises TypeError
\* in finished(), and the slot is not called.
finished(t, success) ==
  LET message == IF success THEN <<"Finished fetching data">>
                 ELSE tasks[t].error
  IN
  /\ tasks' = [tasks EXCEPT ![t].pc = "finished"]
  /\ task_done' = [task_done EXCEPT ![t] =
                     Append(@, [success |-> success, message |-> message])]
  /\ IF success THEN update_status(DONE, LoadedMessage)
     ELSE IF message = NoneStr THEN UNCHANGED <<status, loading>>
     ELSE update_status(FAILED, message)

\* The UI thread's event loop hands the oldest posted event to its slot.
\* It runs at top level and inside every cooperative yield
\* (QApplication.processEvents) of a materialization in progress.
Deliver ==
  /\ uiQueue # <<>>
  /\ LET e == Head(uiQueue) IN
     /\ uiQueue' = Tail(uiQueue)
     /\ CASE e.sig = "status_update" ->
               /\ update_status(RUNNING,
                    <<"Fetching", Description(e.step), "...">>)
               /\ UNCHANGED <<taskVars, step_data, active_task,
                              current_project_url, matStack, matLog,
                              canvas, main_group, root, internal_group_uuid,
                 map_layers, tree_log>>
          [] e.sig = "progress_data" ->
               /\ on_load_data(e.step, e.payload)
               /\ UNCHANGED <<taskVars, active_task, current_project_url,
                              loading>>
          [] e.sig = "finished" ->
               /\ finished(e.task, e.success)
               /\ UNCHANGED <<tlog, cancelRequested, step_data, active_task,
                              current_project_url, matStack, matLog,
                              canvas, main_group, root, internal_group_uuid,
                 map_layers, tree_log>>

\* The innermost _process_all_steps call ends: add_features_layers either
\* returns after calling _on_features_complete (set_success), or an exception
\* leaves through the finally clause.
ProcessAllStepsEnd(raised) ==
  /\ matStack # <<>>
  /\ matStack' = SubSeq(matStack, 1, Len(matStack) - 1)
  /\ canvas' = release_and_refresh(canvas)
  /\ status' = IF raised THEN status ELSE set_success(LoadedMessage)
  /\ UNCHANGED <<taskVars, uiQueue, step_data, active_task,
                 current_project_url, loading, matLog, main_group, root,
                 internal_group_uuid,
                 map_layers, tree_log>>

\* HazmapperPluginDockWidget.closeEvent: the user closes the dock widget.
closeEvent ==
  /\ matStack = <<>>
  /\ active_task # 0
  /\ cancel(active_task)
  /\ UNCHANGED <<uiQueue, dockVars>>

\* ProjectSelector.load_project: the Load button (or Return in the URL field)
\* of the enabled selector; user input is not handled inside a cooperative
\* yield (QEventLoop.ExcludeUserInputEvents).
load_project(url, replace) ==
  /\ ~loading
  /\ matStack = <<>>
  /\ is_valid_url(url)
  /\ NumTasks < MaxLoads
  /\ handle_load_request(url, replace)

\* handle_load_request called as a slot, whatever the selector's state.
LoadRequestSlot(url, replace) ==
  /\ NumTasks < MaxLoads
  /\ handle_load_request(url, replace)


\* ------------------------------------------------- the main groups alone
\* Longest history of changes of the root's children explored.
MaxTreeEvents == 5

\* Project names and uuids create_main_group is called with: a uuid of
\* eight characters, a longer one, and the defaults of _process_all_steps.
CreateArgs ==
  {<<<<"T", "P">>, <<"u", "u", "i", "d", "-", "1", "2", "3">>>>,
   <<<<"T", "P">>, <<"u", "u", "i", "d", "-", "1", "2", "3", "4">>>>,
   <<Unnamed, unknown>>}

\* What the group calls leave alone.
groupRest == <<taskVars, uiQueue, step_data, active_task, current_project_url,
               loading, status, matStack, matLog, canvas>>

\* A call of create_main_group, as _process_all_steps makes it.
CreateMainGroup(project_name, project_uuid) ==
  /\ Len(tree_log) < MaxTreeEvents
  /\ create_main_group(uuid4, project_name, project_uuid)
  /\ UNCHANGED map_layers
  /\ tree_log' = Changes("create_main_group", <<project_name, project_uuid>>)
  /\ UNCHANGED groupRest

\* A call of remove_previous_main_group, as handle_load_request makes it.
RemovePreviousMainGroup ==
  /\ remove_previous_main_group
  /\ UNCHANGED main_group
  /\ tree_log' = Changes("remove_previous_main_group", <<>>)
  /\ UNCHANGED groupRest

\* A layer is registered and put into the main group (the insertions of
\* add_basemap_layers and add_features_layers); layers are numbered.
AddLayerToMainGroup ==
  /\ Len(tree_log) < MaxTreeEvents
  /\ \E i \in 1..Len(root) :
       /\ root[i].id # 0
       /\ root[i].id = main_group
       /\ LET lid == 1 + Cardinality(EventsOf("addMapLayer")) IN
          /\ map_layers' = map_layers \cup {lid}
          /\ root' = [root EXCEPT ![i].layers = @ \cup {lid}]
          /\ UNCHANGED <<internal_group_uuid, main_group>>
          /\ tree_log' = Changes("addMapLayer", <<lid>>)
  /\ UNCHANGED groupRest

\* The user removes a child of the root in the layer panel.
UserRemovesGroup(i) ==
  /\ Len(tree_log) < MaxTreeEvents
  /\ i \in 1..Len(root)
  /\ map_layers' = map_layers \ root[i].layers
  /\ root' = RemoveAt(root, i)
  /\ UNCHANGED <<internal_group_uuid, main_group>>
  /\ tree_log' = Changes("user_removes", <<i>>)
  /\ UNCHANGED groupRest

\* The user adds a group of their own, holding one layer, on top.
UserAddsGroup ==
  /\ Len(tree_log) < MaxTreeEvents
  /\ LET lid == 0 - (1 + Cardinality(EventsOf("user_adds"))) IN
     /\ map_layers' = map_layers \cup {lid}
     /\ root' = <<GroupNodeOf(0, <<"m", "i", "n", "e">>, <<>>, {lid})>>
                 \o root
     /\ UNCHANGED <<internal_group_uuid, main_group>>
     /\ tree_log' = Changes("user_adds", <<lid>>)
  /\ UNCHANGED groupRest


\* ------------------------------------------------- the feature materializer
\* Largest feature collection and largest batch size explored.
MaxFeatures == 3
MaxBatch == 2

\* Asset lists a feature can carry (asset types, first asset first).
AssetLists ==
  {<<>>, <<"image">>, <<"point_cloud">>, <<"questionnaire", "image">>}

\* A feature's geometry: convertible and non-empty, convertible but empty
\* (e.g. a Point without coordinates), or not convertible.
Geometries == {"ok", "empty", "bad"}

\* A feature: has_assets tells whether it has the key "assets" at all.  The
\* geometry of a feature without assets is never read; one stands for all.
Feature ==
  {f \in [has_assets : BOOLEAN, assets : AssetLists, geometry : Geometries] :
     /\ f.has_assets \/ f.assets = <<>>
     /\ f.assets = <<>> => f.geometry = "ok"}

\* A feature without assets classified as a plain vector feature.
AssetsOfUnclassified(feat) ==
  IF feat.has_assets /\ feat.assets # <<>>
    THEN feat.assets ELSE <<"no_asset_vector">>

\* feat.get("assets") or []
AssetsOf(feat) == IF feat.has_assets THEN feat.assets ELSE <<>>

\* Feature collections of at most n features.
FeatureLists(n) == UNION {[1..k -> Feature] : k \in 0..n}

\* QgsGeometry.fromWkt(json_to_wkt(json.dumps(geometry))): OGR yields no
\* geometry for GeoJSON it cannot read and json_to_wkt raises on it; an empty
\* geometry converts to an empty QgsGeometry.
fromWkt_json_to_wkt(geometry) ==
  CASE geometry = "ok" -> "geometry"
    [] geometry = "empty" -> "empty geometry"
    [] geometry = "bad" -> "raise"

\* The characters of the asset types explored that display_names lacks.
Chars(asset_type) ==
  CASE asset_type = "a_b" -> <<"a", "_", "b">>
    [] asset_type = "ab_ba" -> <<"a", "b", "_", "b", "a">>
    [] asset_type = "_a" -> <<"_", "a">>
    [] asset_type = "aB" -> <<"a", "B">>
    [] asset_type = "A__b" -> <<"A", "_", "_", "b">>
    [] asset_type = "b_a_b" -> <<"b", "_", "a", "_", "b">>

\* str.isalpha, str.upper and str.lower of one character.
IsLetter(c) == c \in {"a", "b", "A", "B"}
Upper(c) == CASE c = "a" -> "A" [] c = "b" -> "B" [] OTHER -> c
Lower(c) == CASE c = "A" -> "a" [] c = "B" -> "b" [] OTHER -> c

\* str.replace("_", " ")
replace_underscores(str) ==
  [i \in 1..Len(str) |-> IF str[i] = "_" THEN " " ELSE str[i]]

\* A title() that capitalizes the first word alone.
title_first_word(str) ==
  [i \in 1..Len(str) |-> IF i = 1 THEN Upper(str[i]) ELSE Lower(str[i])]

\* str.title(): a letter that follows no letter becomes upper case, a
\* letter that follows a letter lower case; other characters are kept.
title(str) ==
  [i \in 1..Len(str) |->
     IF ~IsLetter(str[i]) THEN str[i]
     ELSE IF i = 1 \/ ~IsLetter(str[i - 1]) THEN Upper(str[i])
     ELSE Lower(str[i])]

\* utils.display.get_display_name:
\* display_names.get(asset_type, asset_type.replace("_", " ").title())
get_display_name(asset_type) ==
  CASE asset_type = "point_cloud" -> "Point Clouds"
    [] asset_type = "image" -> "Images"
    [] asset_type = "streetview" -> "StreetView"
    [] asset_type = "video" -> "Videos"
    [] asset_type = "questionnaire" -> "Questionnaires"
    [] asset_type = "no_asset_vector" -> "Vector Features"
    [] OTHER -> title(replace_underscores(Chars(asset_type)))

\* The asset types materialized as one shared layer.
PointStyle == {"video", "image", "streetview"}

VARIABLES
  features,        \* features.get("features", []) of the call
  has_callback,    \* completion_callback is not None
  BATCH,           \* the batch size of the branch (the locals named BATCH)
  fpc,             \* where add_features_layers is
  feature_groups,  \* asset type -> items, in insertion order
  total_items,
  processed,
  gi,              \* number of the asset group being worked on
  bi,              \* the loop variable i of the group's loop
  layer_feats,     \* features added to the shared layer being filled
  batch_layers,    \* layers created and not yet registered
  registered,      \* layers handed to QgsProject.addMapLayer(s), in order
  group_children,  \* main_group.children(), top first
  completions,     \* calls of completion_callback
  blocked,         \* objects whose signals are blocked (root, subgroup)
  progress_calls,  \* the calls of update_progress: percent and force
  store_events     \* registrations and insertions of layers, in order

featVars == <<features, has_callback, BATCH, fpc, feature_groups, total_items,
              processed, gi, bi, layer_feats, batch_layers, registered,
              group_children, completions, blocked, progress_calls,
              store_events>>

\* QgsProject.instance().addMapLayer(layer, False) and group.insertLayer(0,
\* layer) as events.
Registered(layer) == [ev |-> "addMapLayer", layer |-> layer]
Inserted(layer) == [ev |-> "insertLayer", layer |-> layer]

\* A flush that inserts the layers before it registers them.
insert_then_register(layers) ==
  [k \in 1..Len(layers) |-> Inserted(layers[k])]
    \o [k \in 1..Len(layers) |-> Registered(layers[k])]

\* QgsProject.instance().addMapLayers(batch_layers, False), then
\* subgroup.insertLayer(0, l) for each l of the batch.
register_then_insert(layers) ==
  [k \in 1..Len(layers) |-> Registered(layers[k])]
    \o [k \in 1..Len(layers) |-> Inserted(layers[k])]

\* One call update_progress(message, pct, force=...), by the line making it;
\* msg holds the values formatted into the message.
ProgressCall(line, msg, pct, force) ==
  [line |-> line, msg |-> msg, pct |-> pct, force |-> force]

\* A child appended below the others: addChildNode(node).
appendChildNode(children, index, node) == Append(children, node)

\* main_group.insertChildNode(index, node), main_group.insertLayer(index, l)
insertChildNode(children, index, node) ==
  SubSeq(children, 1, index) \o <<node>>
    \o SubSeq(children, index + 1, Len(children))

\* int(done * 100 / max(total, 1))
percent(done, total) == (done * 100) \div (IF total > 1 THEN total ELSE 1)

\* A batch end that is not clamped to the group's size: i + BATCH.
batch_done_unclamped(i, batch, total) == i + batch

\* done = min(i + BATCH, total)
batch_done(i, batch, total) == IF i + batch < total THEN i + batch ELSE total

\* A finally clause that unblocks the subgroup only.
unblock_subgroup_only(b) == b \ {"subgroup"}

\* finally: subgroup.blockSignals(False); root.blockSignals(False)
unblock_signals(b) == (b \ {"subgroup"}) \ {"root"}


Min(a, b) == IF a < b THEN a ELSE b

\* A layer node and a subgroup node of the layer tree.
LayerNode(asset_type, name, feats) ==
  [node |-> "layer", asset_type |-> asset_type, name |-> name,
   feats |-> feats, children |-> <<>>]
GroupNode(asset_type, name, children) ==
  [node |-> "group", asset_type |-> asset_type, name |-> name,
   feats |-> <<>>, children |-> children]

\* Classifying a feature by the last of its assets.
LastAsset(assets) == Len(assets)

\* asset = assets[0]: the index of the asset that classifies a feature.
PrimaryAsset(assets) == 1

\* Position of asset_type among the groups (0: absent).
GroupIndex(groups, asset_type) ==
  IF \E k \in 1..Len(groups) : groups[k].asset_type = asset_type
    THEN CHOOSE k \in 1..Len(groups) : groups[k].asset_type = asset_type
    ELSE 0

\* The grouping loop of add_features_layers: a feature without assets is
\* skipped; the others go to the group of assets[0].asset_type, paired with
\* that asset.
RECURSIVE GroupFeatures(_, _, _)
GroupFeatures(fs, i, groups) ==
  IF i > Len(fs) THEN groups
  ELSE LET assets == AssetsOf(fs[i]) IN
       IF assets = <<>> THEN GroupFeatures(fs, i + 1, groups)
       ELSE LET a == PrimaryAsset(assets)
                atype == assets[a]
                item == [feat |-> i, asset |-> a]
                k == GroupIndex(groups, atype)
            IN IF k = 0
                 THEN GroupFeatures(fs, i + 1,
                        Append(groups, [asset_type |-> atype,
                                        items |-> <<item>>]))
                 ELSE GroupFeatures(fs, i + 1,
                        [groups EXCEPT ![k].items = Append(@, item)])

\* Number of features grouped (total_items).
RECURSIVE CountItems(_, _)
CountItems(groups, k) ==
  IF k > Len(groups) THEN 0
  ELSE Len(groups[k].items) + CountItems(groups, k + 1)

\* add_features_layers up to the loop over the asset groups.
FeatStart ==
  /\ fpc = "start"
  /\ feature_groups' = GroupFeatures(features, 1, <<>>)
  /\ total_items' = CountItems(feature_groups', 1)
  /\ processed' = 0
  /\ fpc' = "next"
  /\ progress_calls' = Append(progress_calls, ProgressCall(231, <<>>, -1, TRUE))
  /\ UNCHANGED <<features, has_callback, BATCH, gi, bi, layer_feats,
                 batch_layers, registered, group_children, completions,
                 blocked, store_events>>

\* The loop takes the next asset group: a point-style type gets one memory
\* layer to fill; any other type gets a subgroup at position 0 of the main
\* group, and the signals of the root and the subgroup are blocked.
FeatBeginGroup ==
  /\ fpc = "next"
  /\ gi < Len(feature_groups)
  /\ gi' = gi + 1
  /\ LET asset_type == feature_groups[gi + 1].asset_type IN
     IF asset_type \in PointStyle
       THEN /\ fpc' = "shared"
            /\ bi' = 0
            /\ layer_feats' = <<>>
            /\ UNCHANGED <<group_children, blocked, batch_layers>>
       ELSE /\ fpc' = "layers"
            /\ bi' = 1
            /\ group_children' =
                 insertChildNode(group_children, 0,
                   GroupNode(asset_type, get_display_name(asset_type), <<>>))
            /\ batch_layers' = <<>>
            /\ blocked' = {"root", "subgroup"}
            /\ UNCHANGED layer_feats
  /\ progress_calls' =
       Append(progress_calls,
              ProgressCall(252, <<feature_groups[gi + 1].asset_type>>, -1,
                           TRUE))
  /\ UNCHANGED <<features, has_callback, BATCH, feature_groups, total_items,
                 processed, registered, completions, store_events>>

\* A batch slice that stops one item early: items[i : i + BATCH - 1].
BatchFeatsShort(items, i, batch) ==
  LET slice == SubSeq(items, i + 1, Min(i + batch - 1, Len(items)))
      added(item) == fromWkt_json_to_wkt(features[item.feat].geometry)
                       = "geometry"
      kept == SelectSeq(slice, added)
  IN [k \in 1..Len(kept) |-> kept[k].feat]

\* The features of one batch that get a geometry in the shared layer: empty
\* geometries are skipped, a conversion that raises is caught and skipped.
BatchFeats(items, i, batch) ==
  LET slice == SubSeq(items, i + 1, Min(i + batch, Len(items)))
      added(item) == fromWkt_json_to_wkt(features[item.feat].geometry)
                       = "geometry"
      kept == SelectSeq(slice, added)
  IN [k \in 1..Len(kept) |-> kept[k].feat]

\* One batch of a point-style group: for i in range(0, total, BATCH).
FeatSharedBatch ==
  /\ fpc = "shared"
  /\ bi < Len(feature_groups[gi].items)
  /\ layer_feats' =
       layer_feats \o BatchFeats(feature_groups[gi].items, bi, BATCH)
  /\ bi' = bi + BATCH
  /\ LET total == Len(feature_groups[gi].items)
         done == batch_done(bi, BATCH, total)
     IN progress_calls' =
          Append(progress_calls,
                 ProgressCall(315,
                              <<feature_groups[gi].asset_type, done, total>>,
                              percent(done, total), FALSE))
  /\ UNCHANGED <<features, has_callback, BATCH, fpc, feature_groups,
                 total_items, processed, gi, batch_layers, registered,
                 group_children, completions, blocked, store_events>>

\* After the last batch the shared layer is registered and inserted at
\* position 0 of the main group.
FeatSharedInsert ==
  /\ fpc = "shared"
  /\ bi >= Len(feature_groups[gi].items)
  /\ LET asset_type == feature_groups[gi].asset_type
         layer == LayerNode(asset_type, get_display_name(asset_type),
                            layer_feats)
     IN /\ registered' = Append(registered, layer)
        /\ group_children' = insertChildNode(group_children, 0, layer)
        /\ store_events' = store_events \o register_then_insert(<<layer>>)
  /\ processed' = processed + Len(feature_groups[gi].items)
  /\ fpc' = "next"
  /\ progress_calls' =
       Append(progress_calls,
              ProgressCall(327, <<feature_groups[gi].asset_type>>, 100, TRUE))
  /\ UNCHANGED <<features, has_callback, BATCH, feature_groups, total_items,
                 gi, bi, layer_feats, batch_layers, completions, blocked>>

\* Inserting a batch of layers as a block in front of the subgroup's children.
InsertBlockFront(children, layers) == layers \o children

\* Inserting layers one by one at position 0 of the subgroup.
RECURSIVE InsertAllFront(_, _)
InsertAllFront(children, layers) ==
  IF layers = <<>> THEN children
  ELSE InsertAllFront(<<Head(layers)>> \o children, Tail(layers))

\* One feature of a per-feature group, `if vl:` finding a layer (produced) or
\* none: _create_memory_layer makes its layer
\* (the conversion is not guarded: when it raises, the exception leaves
\* add_features_layers through the finally clause); every BATCH layers, and
\* at the last feature, the pending layers are registered and inserted.
FeatLayerStepWith(produced) ==
  /\ fpc = "layers"
  /\ bi <= Len(feature_groups[gi].items)
  /\ LET asset_type == feature_groups[gi].asset_type
         items == feature_groups[gi].items
         total == Len(items)
         feat == items[bi].feat
         made == fromWkt_json_to_wkt(features[feat].geometry)
         vl == LayerNode(asset_type, "display_path", <<feat>>)
         pending == IF produced THEN Append(batch_layers, vl)
                    ELSE batch_layers
     IN
     IF made = "raise"
       THEN /\ fpc' = "raised"
            /\ blocked' = unblock_signals(blocked)
            /\ UNCHANGED <<bi, batch_layers, registered, group_children,
                           processed, progress_calls, store_events>>
       ELSE /\ IF Len(pending) >= BATCH \/ bi = total
                 THEN /\ registered' = registered \o pending
                      /\ group_children' =
                           [group_children EXCEPT ![1].children =
                              InsertAllFront(@, pending)]
                      /\ store_events' =
                           store_events \o register_then_insert(pending)
                      /\ batch_layers' = <<>>
                 ELSE /\ batch_layers' = pending
                      /\ UNCHANGED <<registered, group_children,
                                     store_events>>
            /\ processed' = processed + 1
            /\ progress_calls' =
                 Append(progress_calls,
                        ProgressCall(359, <<asset_type, bi, total>>,
                                     percent(processed', total_items),
                                     FALSE))
            /\ bi' = bi + 1
            /\ UNCHANGED <<fpc, blocked>>
  /\ UNCHANGED <<features, has_callback, BATCH, feature_groups, total_items,
                 gi, layer_feats, completions>>

\* _create_memory_layer returns a layer or raises: `if vl:` finds a layer.
FeatLayerStep == FeatLayerStepWith(TRUE)

\* The per-feature loop has ended: the finally clause unblocks the signals.
FeatLayersEnd ==
  /\ fpc = "layers"
  /\ bi > Len(feature_groups[gi].items)
  /\ blocked' = unblock_signals(blocked)
  /\ fpc' = "next"
  /\ progress_calls' =
       Append(progress_calls,
              ProgressCall(363, <<feature_groups[gi].asset_type>>, 100, TRUE))
  /\ UNCHANGED <<features, has_callback, BATCH, feature_groups, total_items,
                 processed, gi, bi, layer_feats, batch_layers, registered,
                 group_children, completions, store_events>>

\* The call of completion_callback that follows the loop over the groups.
completion_callback(n) == n + 1

\* All asset groups are done: completion_callback is called, if given.
FeatComplete ==
  /\ fpc = "next"
  /\ gi = Len(feature_groups)
  /\ completions' =
       IF has_callback THEN completion_callback(completions) ELSE completions
  /\ fpc' = "done"
  /\ UNCHANGED <<features, has_callback, BATCH, feature_groups, total_items,
                 processed, gi, bi, layer_feats, batch_layers, registered,
                 group_children, blocked, progress_calls, store_events>>


\* ------------------------------------------------------- the basemap layers
\* Largest list of basemap descriptors explored.
MaxLayers == 3

\* The opacity of a descriptor that declares none, in tenths: 1.0.
DefaultOpacity == 10

\* The zIndex of a descriptor that declares none.
DefaultZIndex == 0

\* A basemap descriptor: uiOptions with or without zIndex and opacity (in
\* tenths), and what becomes of it: a tile layer QGIS accepts ("tms", which
\* stands for arcgis tile services too), a type the plugin does not support,
\* or a tile layer whose QgsRasterLayer is not valid.
Descriptor ==
  {d \in [has_uiOptions : {TRUE}, has_z : BOOLEAN, zIndex : {0, 1},
          has_opacity : BOOLEAN, opacity : {5, DefaultOpacity},
          type : {"tms", "unsupported", "invalid"}] :
     /\ (d.has_z \/ d.zIndex = 0)
     /\ (d.has_opacity <=> d.opacity = 5)}

\* Descriptors that go wrong one way or another: besides the above, one
\* whose processing raises inside the loop ("raises": no "name", "url" or
\* "type" key, or a host call that raises) and one without "uiOptions".
FaultyDescriptor ==
  {d \in [has_uiOptions : BOOLEAN, has_z : BOOLEAN, zIndex : {0, 1},
          has_opacity : {FALSE}, opacity : {DefaultOpacity},
          type : {"tms", "unsupported", "invalid", "raises"}] :
     IF d.has_uiOptions THEN d.has_z
     ELSE ~d.has_z /\ d.zIndex = 0 /\ d.type = "tms"}

\* Lists of at most n such descriptors.
FaultyDescriptorLists(n) == UNION {[1..k -> FaultyDescriptor] : k \in 0..n}

\* Lists of at most n descriptors.
DescriptorLists(n) == UNION {[1..k -> Descriptor] : k \in 0..n}

\* A sort key that puts descriptors without zIndex above all others.
zIndexMissingOnTop(d) == IF d.has_z THEN d.zIndex ELSE 2

\* x["uiOptions"].get("zIndex", 0)
zIndex(d) == IF d.has_z THEN d.zIndex ELSE DefaultZIndex

\* layer_data["uiOptions"].get("opacity", 1.0)
opacity(d) == IF d.has_opacity THEN d.opacity ELSE DefaultOpacity

VARIABLES
  layers,          \* the basemap descriptors given to add_basemap_layers
  sorted_layers,   \* indexes into layers, in processing order
  bpc,             \* where add_basemap_layers is
  bidx,            \* descriptors processed so far
  base_children,   \* the basemap layers in the main group, top first
  base_progress,   \* the calls of update_progress: percent and force
  base_events      \* registrations and insertions of layers, in order

baseVars == <<layers, sorted_layers, bpc, bidx, base_children, base_progress,
              base_events>>

\* One step of a stable sort: index i goes behind every index whose key is
\* not larger.
InsertSorted(ls, sorted, i) ==
  LET behind == {j \in 1..Len(sorted) : zIndex(ls[sorted[j]]) <= zIndex(ls[i])}
      n == Cardinality(behind)
  IN SubSeq(sorted, 1, n) \o <<i>> \o SubSeq(sorted, n + 1, Len(sorted))

\* sorted(layers, key=lambda x: x["uiOptions"].get("zIndex", 0)), as indexes.
RECURSIVE SortedByZIndex(_, _)
SortedByZIndex(ls, n) ==
  IF n = 0 THEN <<>>
  ELSE InsertSorted(ls, SortedByZIndex(ls, n - 1), n)

\* add_basemap_layers up to its loop: the descriptors are sorted.  The sort
\* key reads x["uiOptions"] outside every try: a descriptor without it makes
\* sorted() raise KeyError, which leaves add_basemap_layers.
BasemapStart ==
  /\ bpc = "start"
  /\ IF \A i \in 1..Len(layers) : layers[i].has_uiOptions
       THEN /\ sorted_layers' = SortedByZIndex(layers, Len(layers))
            /\ bpc' = "loop"
       ELSE /\ sorted_layers' = sorted_layers
            /\ bpc' = "raised"
  /\ base_progress' = Append(base_progress, ProgressCall(140, <<>>, -1, TRUE))
  /\ UNCHANGED <<layers, bidx, base_children, base_events>>

\* One descriptor of the loop: an unsupported type and an invalid raster
\* layer are skipped; a valid layer gets its opacity and is inserted at
\* position 0 of the main group.
BasemapStep ==
  /\ bpc = "loop"
  /\ bidx < Len(sorted_layers)
  /\ LET i == sorted_layers[bidx + 1]
         layer_data == layers[i]
     IN /\ base_children' =
             IF layer_data.type = "tms"
               THEN <<[id |-> i, opacity |-> opacity(layer_data)]>>
                      \o base_children
               ELSE base_children
        /\ base_progress' =
             IF layer_data.type = "tms"
               THEN Append(base_progress,
                           ProgressCall(213, <<>>,
                                        (bidx * 100) \div Len(sorted_layers),
                                        FALSE))
               ELSE base_progress
        /\ base_events' =
             IF layer_data.type = "tms"
               THEN base_events \o
                      register_then_insert(
                        <<[id |-> i, opacity |-> opacity(layer_data)]>>)
               ELSE base_events
  /\ bidx' = bidx + 1
  /\ UNCHANGED <<layers, sorted_layers, bpc>>

\* The loop has ended.
BasemapEnd ==
  /\ bpc = "loop"
  /\ bidx = Len(sorted_layers)
  /\ bpc' = "done"
  /\ UNCHANGED <<layers, sorted_layers, bidx, base_children, base_progress,
                 base_events>>

\* No call of add_basemap_layers is followed.
InitBasemapIdle ==
  /\ layers = <<>>
  /\ sorted_layers = <<>>
  /\ bpc = "idle"
  /\ bidx = 0
  /\ base_children = <<>>
  /\ base_progress = <<>>
  /\ base_events = <<>>

\* add_basemap_layers is called with descriptors that may go wrong.
InitBasemapFaulty ==
  /\ layers \in FaultyDescriptorLists(MaxLayers)
  /\ sorted_layers = <<>>
  /\ bpc = "start"
  /\ bidx = 0
  /\ base_children = <<>>
  /\ base_progress = <<>>
  /\ base_events = <<>>

\* add_basemap_layers is called on a new main group.
InitBasemap ==
  /\ layers \in DescriptorLists(MaxLayers)
  /\ sorted_layers = <<>>
  /\ bpc = "start"
  /\ bidx = 0
  /\ base_children = <<>>
  /\ base_progress = <<>>
  /\ base_events = <<>>


\* ------------------------------------------------------------ extent fitting
\* Largest number of nodes (layers and subgroups) of a layer tree explored.
MaxNodes == 4

\* A QgsRectangle; NoExtent is Python's None (running_extent=None).
Rect(xmin, xmax, ymin, ymax) ==
  [none |-> FALSE, null |-> FALSE,
   xmin |-> xmin, xmax |-> xmax, ymin |-> ymin, ymax |-> ymax]
NoExtent ==
  [none |-> TRUE, null |-> TRUE, xmin |-> 0, xmax |-> 0, ymin |-> 0, ymax |-> 0]

\* QgsRectangle.isEmpty: null, or without width or height.
isEmpty(r) == r.null \/ r.xmax <= r.xmin \/ r.ymax <= r.ymin

Max(a, b) == IF a > b THEN a ELSE b

\* QgsRectangle.combineExtentWith
combineExtentWith(r, rect) ==
  IF r.null THEN rect
  ELSE IF rect.null THEN r
  ELSE Rect(Min(r.xmin, rect.xmin), Max(r.xmax, rect.xmax),
            Min(r.ymin, rect.ymin), Max(r.ymax, rect.ymax))

\* QgsCoordinateTransform.transformBoundingBox from the layers' other CRS to
\* the canvas CRS: here the canvas unit is half the layer unit.
transformBoundingBox(r) ==
  Rect(2 * r.xmin, 2 * r.xmax, 2 * r.ymin, 2 * r.ymax)

\* The layers a layer-tree node can hold.
LayerKinds ==
  {"vecA", "vecB", "vecFail", "noCrs", "raster", "invalid", "point"}

\* What the traversal reads of a layer: validity, type, extent, CRS, and
\* whether the transformation of its extent raises.
LayerOf(kind) ==
  CASE kind = "vecA" ->
         [valid |-> TRUE, type |-> "vector", extent |-> Rect(0, 2, 0, 2),
          crs |-> "canvas", xform |-> "ok"]
    [] kind = "vecB" ->
         [valid |-> TRUE, type |-> "vector", extent |-> Rect(3, 4, 1, 5),
          crs |-> "other", xform |-> "ok"]
    [] kind = "vecFail" ->
         [valid |-> TRUE, type |-> "vector", extent |-> Rect(-9, 9, -9, 9),
          crs |-> "other", xform |-> "raise"]
    [] kind = "noCrs" ->
         [valid |-> TRUE, type |-> "vector", extent |-> Rect(5, 6, -1, 1),
          crs |-> "invalid", xform |-> "ok"]
    [] kind = "raster" ->
         [valid |-> TRUE, type |-> "raster", extent |-> Rect(-9, 9, -9, 9),
          crs |-> "other", xform |-> "ok"]
    [] kind = "invalid" ->
         [valid |-> FALSE, type |-> "vector", extent |-> Rect(-9, 9, -9, 9),
          crs |-> "canvas", xform |-> "ok"]
    [] kind = "point" ->
         [valid |-> TRUE, type |-> "vector", extent |-> Rect(7, 7, 7, 7),
          crs |-> "canvas", xform |-> "ok"]

\* The extent of the canvas before zoom_to_group.
InitialView == Rect(0, 1, 0, 1)

VARIABLES
  has_main_group,  \* self.main_group is not None
  zpc,             \* where _zoom_to_main_group / zoom_to_group is
  ztree,           \* the nodes visited, in order: a layer, "(" on entering
                   \* a subgroup, ")" on leaving it
  zstack,          \* running_extent of the callers of accumulate_extent
  running_extent,
  zprev,           \* running_extent before the last node was visited
  canvas_extent,
  refreshes        \* calls of canvas.refresh() by zoom_to_group

zoomVars == <<has_main_group, zpc, ztree, zstack, running_extent, zprev,
              canvas_extent, refreshes>>

\* Number of nodes visited.
NodesVisited == Cardinality({j \in 1..Len(ztree) : ztree[j] # ")"})

\* A layer counted whatever its type.
contributesAnyType(l) == l.valid /\ ~isEmpty(l.extent)

\* The tests a layer passes before its extent is used: valid, a vector
\* layer, with a non-empty extent.
contributes(l) == l.valid /\ l.type = "vector" /\ ~isEmpty(l.extent)

\* A failed transformation that drops what was accumulated.
DropOnTransformFailure(running) == NoExtent

\* except Exception: log and continue; running_extent stays as it is.
OnTransformFailure(running) == running

\* A recursive call whose result is not assigned.
DiscardSubgroupExtent(outer, returned) == outer

\* running_extent = accumulate_extent(child, running_extent)
ReturnFromSubgroup(outer, returned) == returned

\* zoom_to_group setting the extent whatever it has computed.
ShouldZoomAlways(extent) == TRUE

\* if extent and not extent.isEmpty()
ShouldZoom(extent) == ~extent.none /\ ~isEmpty(extent)

\* The body of accumulate_extent's loop for a layer node.
accumulate_layer(running, kind) ==
  LET layer == LayerOf(kind)
      combined(lyr_extent) ==
        IF running.none THEN lyr_extent
        ELSE combineExtentWith(running, lyr_extent)
  IN
  IF ~contributes(layer) THEN running
  ELSE IF layer.crs = "other"
    THEN IF layer.xform = "raise"
           THEN OnTransformFailure(running)
           ELSE combined(transformBoundingBox(layer.extent))
    ELSE combined(layer.extent)

\* _zoom_to_main_group: nothing to do without a main group; otherwise
\* zoom_to_group starts accumulate_extent(group).
ZoomToMainGroup ==
  /\ zpc = "start"
  /\ zpc' = IF has_main_group THEN "walk" ELSE "done"
  /\ UNCHANGED <<has_main_group, ztree, zstack, running_extent, zprev,
                 canvas_extent, refreshes>>

\* The loop of accumulate_extent finds a layer node.
VisitLayer(kind) ==
  /\ zpc = "walk"
  /\ NodesVisited < MaxNodes
  /\ ztree' = Append(ztree, kind)
  /\ zprev' = running_extent
  /\ running_extent' = accumulate_layer(running_extent, kind)
  /\ UNCHANGED <<has_main_group, zpc, zstack, canvas_extent, refreshes>>

\* The loop finds a group node: accumulate_extent(child, running_extent).
EnterSubgroup ==
  /\ zpc = "walk"
  /\ NodesVisited < MaxNodes
  /\ ztree' = Append(ztree, "(")
  /\ zstack' = Append(zstack, running_extent)
  /\ zprev' = running_extent
  /\ UNCHANGED <<has_main_group, zpc, running_extent, canvas_extent,
                 refreshes>>

\* The children of a subgroup are exhausted: the call returns its
\* running_extent to the caller.
LeaveSubgroup ==
  /\ zpc = "walk"
  /\ zstack # <<>>
  /\ ztree' = Append(ztree, ")")
  /\ running_extent' =
       ReturnFromSubgroup(zstack[Len(zstack)], running_extent)
  /\ zstack' = SubSeq(zstack, 1, Len(zstack) - 1)
  /\ zprev' = running_extent
  /\ UNCHANGED <<has_main_group, zpc, canvas_extent, refreshes>>

\* The children of the main group are exhausted: zoom_to_group applies the
\* extent to the canvas, or leaves the canvas alone.
ZoomApply ==
  /\ zpc = "walk"
  /\ zstack = <<>>
  /\ IF ShouldZoom(running_extent)
       THEN /\ canvas_extent' = running_extent
            /\ refreshes' = refreshes + 1
       ELSE UNCHANGED <<canvas_extent, refreshes>>
  /\ zpc' = "done"
  /\ UNCHANGED <<has_main_group, ztree, zstack, running_extent, zprev>>

\* The locals of zoom_to_group before it runs.
ZoomLocals ==
  /\ ztree = <<>>
  /\ zstack = <<>>
  /\ running_extent = NoExtent
  /\ zprev = NoExtent
  /\ canvas_extent = InitialView
  /\ refreshes = 0

\* No extent fitting is followed.
InitZoomIdle ==
  /\ has_main_group = FALSE
  /\ zpc = "idle"
  /\ ZoomLocals

\* The timer of _on_features_complete fires _zoom_to_main_group.
InitZoom ==
  /\ has_main_group \in BOOLEAN
  /\ zpc = "start"
  /\ ZoomLocals


\* ---------------------------------------------------------------- the pacer
\* Largest number of update calls on one pacer, and the latest clock reading
\* (in tenths of a second) explored.
MaxCalls == 2
MaxClock == 6

\* Longest run of update calls one time unit apart explored.
MaxRun == 7

\* interval_sec of make_ui_pacer, in tenths of a second: 0.3 s.
interval_sec == 3

\* A message argument (None or a string) and a percent argument (None or a
\* number, held in tenths: -1 is -10, 50.5 is 505).
NoMsg == [none |-> TRUE, text |-> ""]
Msg(text) == [none |-> FALSE, text |-> text]
NoPct == [none |-> TRUE, tenths |-> 0]
Pct(tenths) == [none |-> FALSE, tenths |-> tenths]

\* The (msg, pct) arguments of the update calls explored.
UpdateArgs ==
  {[msg |-> NoMsg, pct |-> NoPct],
   [msg |-> Msg("a"), pct |-> NoPct],
   [msg |-> NoMsg, pct |-> Pct(505)],
   [msg |-> Msg("b"), pct |-> Pct(-10)]}

\* The progress_cb given to make_ui_pacer: None, a callable, or a callable
\* that raises.
Sinks == {"none", "ok", "raising"}

\* int(pct): truncation toward zero.
int(tenths) ==
  IF tenths >= 0 THEN tenths \div 10 ELSE -((-tenths) \div 10)

\* progress_cb(msg or "", 0 if pct is None else int(pct)): the arguments
\* the sink is called with.
SinkArguments(msg, pct) ==
  [msg |-> IF msg.none THEN "" ELSE msg.text,
   pct |-> IF pct.none THEN 0 ELSE int(pct.tenths)]

\* A pacer that honours the interval for forced calls too.
passesIgnoringForce(force, elapsed) == elapsed >= interval_sec

\* A pacer whose interval is one time unit.
passesAfterOneUnit(force, elapsed) == force \/ elapsed >= 1

\* A pacer that does not throttle.
passesAlways(force, elapsed) == TRUE

\* if force or (now - last[0]) >= interval_sec
passes(force, elapsed) == force \/ elapsed >= interval_sec

VARIABLES
  progress_cb,     \* the sink of the pacer
  now,             \* time.perf_counter(), in tenths of a second
  last,            \* last[0]
  sink_calls,      \* the calls the sink has received, in order
  yields,          \* calls of QApplication.processEvents by the pacer
  updates          \* the update calls made, each with what it did

paceVars == <<progress_cb, now, last, sink_calls, yields, updates>>

\* Time passes between two update calls.
Tick ==
  /\ progress_cb # "unset"
  /\ now < MaxClock
  /\ now' = now + 1
  /\ UNCHANGED <<progress_cb, last, sink_calls, yields, updates>>

\* update_progress_maybe(msg, pct, force=force)
update_progress_maybe(msg, pct, force) ==
  /\ progress_cb # "unset"
  /\ LET go == passes(force, now - last)
         call == go /\ progress_cb # "none" /\ (~msg.none \/ ~pct.none)
     IN
     /\ sink_calls' = IF call
                        THEN Append(sink_calls, SinkArguments(msg, pct))
                        ELSE sink_calls
     /\ yields' = IF go THEN yields + 1 ELSE yields
     /\ last' = IF go THEN now ELSE last
     /\ updates' = Append(updates,
          [at |-> now, msg |-> msg, pct |-> pct, force |-> force,
           last_before |-> last, last_after |-> last',
           sink_before |-> Len(sink_calls), sink_after |-> Len(sink_calls'),
           yields_before |-> yields, yields_after |-> yields'])
  /\ UNCHANGED <<progress_cb, now>>

\* A caller that updates at any time, forced or not.
UpdateCall(args, force) ==
  /\ Len(updates) < MaxCalls
  /\ update_progress_maybe(args.msg, args.pct, force)

\* A loop that makes a non-forced update call once per time unit (the per
\* feature loops of add_features_layers, with one unit per iteration).
RunCall(args) ==
  /\ Len(updates) < MaxRun
  /\ updates # <<>> => now = updates[Len(updates)].at + 1
  /\ update_progress_maybe(args.msg, args.pct, FALSE)

\* One time unit passes between two calls of the loop.
RunTick ==
  /\ updates # <<>>
  /\ Len(updates) < MaxRun
  /\ now = updates[Len(updates)].at
  /\ now' = now + 1
  /\ UNCHANGED <<progress_cb, last, sink_calls, yields, updates>>

\* No pacer is followed.
InitPacerIdle ==
  /\ progress_cb = "unset"
  /\ now = 0
  /\ last = 0
  /\ sink_calls = <<>>
  /\ yields = 0
  /\ updates = <<>>

\* make_ui_pacer(progress_cb, 0.30): last = [0.0]; the clock reads anything.
InitPacer ==
  /\ progress_cb \in Sinks
  /\ now \in {0, interval_sec}
  /\ last = 0
  /\ sink_calls = <<>>
  /\ yields = 0
  /\ updates = <<>>



\* ------------------------------------------------- helpers called one by one
\* Most calls of get_or_create_guest_uuid followed.
MaxGuestCalls == 3

\* Tile URLs as their segments between slashes (a trailing slash leaves an
\* empty last segment): a host with or without subdomain placeholder, a
\* path, a tile template or none, trailing slashes or none.
TileUrls ==
  {host \o path \o template \o slashes :
     host \in {<<"h">>, <<"{s}.h">>},
     path \in {<<>>, <<"tiles">>, <<"MapServer">>, <<"{s}">>},
     template \in {<<>>, <<"{z}", "{x}", "{y}.png">>, <<"{z}", "{x}", "{y}">>,
                   <<"tile", "{z}", "{y}", "{x}">>, <<"tile">>},
     slashes \in {<<>>, <<"">>, <<"", "">>}}

\* The connection target add_basemap_layers resolves for a descriptor: the
\* URL with "{s}" replaced, whether the descriptor is used at all, and the
\* tile URL (the replaced URL for a descriptor that is skipped).
resolve_tile_url(layer_type, given) ==
  LET url == [i \in 1..Len(given) |->
                CASE given[i] = "{s}" -> "a"
                  [] given[i] = "{s}.h" -> "a.h"
                  [] OTHER -> given[i]]
      n == Len(url)
      in_tiles == \E i \in 2..(n - 1) : url[i] = "tiles"
      endswith == n >= 5 /\ SubSeq(url, n - 3, n) = <<"tile", "{z}", "{y}", "{x}">>
      in_zxy == \E i \in 1..(n - 2) :
                  /\ url[i] = "{z}"
                  /\ url[i + 1] = "{x}"
                  /\ url[i + 2] \in {"{y}", "{y}.png"}
      kept == {i \in 1..n : url[i] # ""}
      rstrip == SubSeq(url, 1, IF kept = {} THEN 0
                               ELSE CHOOSE i \in kept : \A j \in kept : j <= i)
  IN
  IF layer_type = "tms" \/ (layer_type = "arcgis" /\ in_tiles)
    THEN [used |-> TRUE, url |-> url,
          tile_url |-> IF ~endswith /\ ~in_zxy
                         THEN rstrip \o <<"tile", "{z}", "{y}", "{x}">>
                         ELSE url]
    ELSE [used |-> FALSE, url |-> url, tile_url |-> url]

\* What a style function leaves on a layer it does not style.
NoStyle == [symbol |-> "none", variant |-> "none"]

\* A streetview style that knows its three variants only.
streetview_style_strict(style_name) ==
  IF style_name \in {"default", "select", "hover"}
    THEN [symbol |-> "line", variant |-> style_name]
    ELSE NoStyle

\* utils.style.apply_streetview_style on a valid layer:
\* styles.get(style_name, styles["default"])
apply_streetview_style(style_name) ==
  [symbol |-> "line",
   variant |-> IF style_name \in {"default", "select", "hover"}
                 THEN style_name ELSE "default"]

\* _apply_style_for_asset_type on a valid layer: the style the layer has
\* afterwards (fill: apply_point_cloud_style, marker:
\* apply_camera_icon_style).
apply_style_for_asset_type(asset_type) ==
  IF asset_type = "point_cloud"
    THEN [symbol |-> "fill", variant |-> "default"]
  ELSE IF asset_type = "image"
    THEN [symbol |-> "marker", variant |-> "default"]
  ELSE IF asset_type = "streetview"
    THEN apply_streetview_style("default")
  ELSE NoStyle

\* The calls followed: the function, its arguments, and its result once it
\* has returned.
UtilCalls ==
  [fn : {"resolve_tile_url"}, args : {"tms", "arcgis", "wms"} \X TileUrls,
   returned : {FALSE}, ret : {"pending"}]
  \cup [fn : {"apply_style_for_asset_type"},
        args : {"point_cloud", "image", "streetview", "video",
                "questionnaire", "no_asset_vector", "a_b"},
        returned : {FALSE}, ret : {"pending"}]
  \cup [fn : {"apply_streetview_style"},
        args : {"default", "select", "hover", "bright", ""},
        returned : {FALSE}, ret : {"pending"}]
  \cup [fn : {"get_display_name"},
        args : {"point_cloud", "image", "streetview", "video",
                "questionnaire", "no_asset_vector", "a_b", "ab_ba", "_a",
                "aB", "A__b", "b_a_b"},
        returned : {FALSE}, ret : {"pending"}]
  \cup [fn : {"get_or_create_guest_uuid"}, args : {"none"},
        returned : {FALSE}, ret : {"pending"}]

VARIABLES
  util,        \* the call followed
  guest_uuid,  \* QSettings hazmapper/guest_uuid (0: unset, -1: "")
  guest_log    \* history: the X-Guest-Uuid header of each request so far

utilVars == <<util, guest_uuid, guest_log>>

\* The resolution of a descriptor's tile URL, and of the result once more.
ResolveTileUrl ==
  /\ util.fn = "resolve_tile_url"
  /\ ~util.returned
  /\ LET r == resolve_tile_url(util.args[1], util.args[2]) IN
     util' = [util EXCEPT !.returned = TRUE, !.ret =
                [first |-> r,
                 again |-> resolve_tile_url(util.args[1], r.tile_url)]]
  /\ UNCHANGED <<guest_uuid, guest_log>>

\* _apply_style_for_asset_type(layer, asset_type) on a valid layer.
ApplyStyleForAssetType ==
  /\ util.fn = "apply_style_for_asset_type"
  /\ ~util.returned
  /\ util' = [util EXCEPT !.returned = TRUE,
                          !.ret = apply_style_for_asset_type(util.args)]
  /\ UNCHANGED <<guest_uuid, guest_log>>

\* apply_streetview_style(layer, style_name) on a valid layer.
ApplyStreetviewStyle ==
  /\ util.fn = "apply_streetview_style"
  /\ ~util.returned
  /\ util' = [util EXCEPT !.returned = TRUE,
                          !.ret = apply_streetview_style(util.args)]
  /\ UNCHANGED <<guest_uuid, guest_log>>

\* add_features_layers names the node of an asset type: the shared layer of
\* a point-style type, the subgroup of any other.
CreateNodeFor ==
  /\ util.fn = "get_display_name"
  /\ ~util.returned
  /\ util' = [util EXCEPT !.returned = TRUE, !.ret =
       IF util.args \in PointStyle
         THEN LayerNode(util.args, get_display_name(util.args), <<>>)
         ELSE GroupNode(util.args, get_display_name(util.args), <<>>)]
  /\ UNCHANGED <<guest_uuid, guest_log>>

\* A test that takes every persisted value for missing.
always_missing(value) == TRUE

\* not guest_uuid: no value persisted, or an empty one.
missing(value) == value <= 0

\* A request is prepared: get_or_create_guest_uuid gives the value of its
\* header X-Guest-Uuid, generating and persisting one when none is there
\* (the n-th generated value is 100 + n).
GetOrCreateGuestUuid ==
  /\ util.fn = "get_or_create_guest_uuid"
  /\ Len(guest_log) < MaxGuestCalls
  /\ LET is_generated(e) == e.generated
         fresh == 101 + Len(SelectSeq(guest_log, is_generated))
         value == IF missing(guest_uuid) THEN fresh ELSE guest_uuid
     IN
     /\ guest_uuid' = value
     /\ guest_log' = Append(guest_log,
          [header |-> value, generated |-> missing(guest_uuid),
           before |-> guest_uuid])
  /\ UNCHANGED util

\* No helper call is followed.
InitUtilIdle ==
  /\ util = [fn |-> "none", args |-> "none", returned |-> FALSE,
            ret |-> "pending"]
  /\ guest_uuid = 0
  /\ guest_log = <<>>

\* One helper call is followed; the guest id may have been persisted by an
\* earlier session (7), or be empty.
InitUtil ==
  /\ util \in UtilCalls
  /\ guest_uuid \in
       IF util.fn = "get_or_create_guest_uuid" THEN {0, 0 - 1, 7} ELSE {0}
  /\ guest_log = <<>>

\* ------------------------------------------------------------ specifications
vars == <<loadVars, featVars, baseVars, zoomVars, paceVars, utilVars>>

\* What the handlers of the dock widget, the feature materializer and the
\* basemap materializer each leave alone.
restOfLoad == <<featVars, baseVars, zoomVars, paceVars, utilVars>>
restOfFeat == <<loadVars, baseVars, zoomVars, paceVars, utilVars>>
restOfBase == <<loadVars, featVars, zoomVars, paceVars, utilVars>>
restOfZoom == <<loadVars, featVars, baseVars, paceVars, utilVars>>
restOfPacer == <<loadVars, featVars, baseVars, zoomVars, utilVars>>
restOfUtil == <<loadVars, featVars, baseVars, zoomVars, paceVars>>

\* The dock widget after construction, no task created.
InitLoad ==
  /\ tasks = [t \in Tasks |-> NoTask]
  /\ tlog = [t \in Tasks |-> <<>>]
  /\ task_done = [t \in Tasks |-> <<>>]
  /\ cancelRequested = [t \in Tasks |-> FALSE]
  /\ uiQueue = <<>>
  /\ step_data = EmptyDict
  /\ active_task = 0
  /\ current_project_url = <<>>
  /\ loading = FALSE
  /\ status = [icon |-> "ready", message |-> <<"Ready">>]
  /\ matStack = <<>>
  /\ matLog = <<>>
  /\ canvas = [frozen |-> FALSE, signals_blocked |-> FALSE, refreshes |-> 0]
  /\ main_group = 0
  /\ root = <<>>
  /\ internal_group_uuid = 0
  /\ map_layers = {}
  /\ tree_log = <<>>

\* The materializer's locals at the call of add_features_layers.
FeatLocals ==
  /\ feature_groups = <<>>
  /\ total_items = 0
  /\ processed = 0
  /\ gi = 0
  /\ bi = 0
  /\ layer_feats = <<>>
  /\ batch_layers = <<>>
  /\ registered = <<>>
  /\ group_children = <<>>
  /\ completions = 0
  /\ blocked = {}
  /\ progress_calls = <<>>
  /\ store_events = <<>>

\* No call of add_features_layers is followed.
InitFeatIdle ==
  /\ features = <<>>
  /\ has_callback = FALSE
  /\ BATCH = 1
  /\ fpc = "idle"
  /\ FeatLocals

\* add_features_layers is called on an empty main group.
InitFeat ==
  /\ features \in FeatureLists(MaxFeatures)
  /\ has_callback \in BOOLEAN
  /\ BATCH \in 1..MaxBatch
  /\ fpc = "start"
  /\ FeatLocals

Init ==
  InitLoad /\ InitFeatIdle /\ InitBasemapIdle /\ InitZoomIdle /\ InitPacerIdle
    /\ InitUtilIdle

Next ==
  \/ \E url \in Urls, replace \in BOOLEAN :
       load_project(url, replace) /\ UNCHANGED restOfLoad
  \/ \E t \in Tasks : RequestBegin(t) /\ UNCHANGED restOfLoad
  \/ \E t \in Tasks :
       \E resp \in Responses(StepOrder[tasks[t].step]) :
         RequestEnd(t, resp) /\ UNCHANGED restOfLoad
  \/ Deliver /\ UNCHANGED restOfLoad
  \/ \E raised \in BOOLEAN : ProcessAllStepsEnd(raised) /\ UNCHANGED restOfLoad
  \/ closeEvent /\ UNCHANGED restOfLoad

Spec == Init /\ [][Next]_vars

NextSlot ==
  \/ Next
  \/ \E url \in Urls, replace \in BOOLEAN :
       LoadRequestSlot(url, replace) /\ UNCHANGED restOfLoad

SpecSlot == Init /\ [][NextSlot]_vars

NextGroups ==
  \/ \E a \in CreateArgs : CreateMainGroup(a[1], a[2]) /\ UNCHANGED restOfLoad
  \/ RemovePreviousMainGroup /\ UNCHANGED restOfLoad
  \/ AddLayerToMainGroup /\ UNCHANGED restOfLoad
  \/ \E i \in 1..MaxTreeEvents : UserRemovesGroup(i) /\ UNCHANGED restOfLoad
  \/ UserAddsGroup /\ UNCHANGED restOfLoad

SpecGroups == Init /\ [][NextGroups]_vars

NextFeat ==
  \/ FeatStart /\ UNCHANGED restOfFeat
  \/ FeatBeginGroup /\ UNCHANGED restOfFeat
  \/ FeatSharedBatch /\ UNCHANGED restOfFeat
  \/ FeatSharedInsert /\ UNCHANGED restOfFeat
  \/ FeatLayerStep /\ UNCHANGED restOfFeat
  \/ FeatLayersEnd /\ UNCHANGED restOfFeat
  \/ FeatComplete /\ UNCHANGED restOfFeat

InitMaterializer ==
  InitLoad /\ InitFeat /\ InitBasemapIdle /\ InitZoomIdle /\ InitPacerIdle
    /\ InitUtilIdle

SpecFeat == InitMaterializer /\ [][NextFeat]_vars

NextBasemap ==
  \/ BasemapStart /\ UNCHANGED restOfBase
  \/ BasemapStep /\ UNCHANGED restOfBase
  \/ BasemapEnd /\ UNCHANGED restOfBase

InitBasemapCall ==
  InitLoad /\ InitFeatIdle /\ InitBasemap /\ InitZoomIdle /\ InitPacerIdle
    /\ InitUtilIdle

SpecBasemap == InitBasemapCall /\ [][NextBasemap]_vars

InitBasemapFaultyCall ==
  InitLoad /\ InitFeatIdle /\ InitBasemapFaulty /\ InitZoomIdle
    /\ InitPacerIdle
    /\ InitUtilIdle

SpecBasemapFaults == InitBasemapFaultyCall /\ [][NextBasemap]_vars

\* Bounds of the runs that follow both materializers on one main group.
MaxMatLayers == 2
MaxMatFeatures == 2

\* The basemap descriptors and the features of those runs.
MatDescriptor ==
  {d \in Descriptor :
     ~d.has_opacity /\ (d.has_z <=> d.zIndex = 1) /\ d.type # "invalid"}
MatFeature == {f \in Feature : f.has_assets /\ f.geometry # "empty"}

\* A basemap layer of the main group as a node of the layer tree.
RasterNode(layer) ==
  [node |-> "raster", asset_type |-> "", name |-> "", feats |-> <<>>,
   children |-> <<>>, id |-> layer.id]

\* _process_all_steps after add_basemap_layers has returned: it passes the
\* same main group to add_features_layers.
AddFeaturesCall ==
  /\ bpc = "done"
  /\ fpc = "pending"
  /\ fpc' = "start"
  /\ group_children' =
       [k \in 1..Len(base_children) |-> RasterNode(base_children[k])]
  /\ UNCHANGED <<features, has_callback, BATCH, feature_groups, total_items,
                 processed, gi, bi, layer_feats, batch_layers, registered,
                 completions, blocked, progress_calls, store_events>>

\* _process_all_steps has created the main group and holds the basemap and
\* feature data of the load.
InitMaterialize ==
  /\ InitLoad /\ InitZoomIdle /\ InitPacerIdle /\ InitUtilIdle
  /\ layers \in UNION {[1..k -> MatDescriptor] : k \in 0..MaxMatLayers}
  /\ sorted_layers = <<>>
  /\ bpc = "start"
  /\ bidx = 0
  /\ base_children = <<>>
  /\ base_progress = <<>>
  /\ base_events = <<>>
  /\ features \in UNION {[1..k -> MatFeature] : k \in 0..MaxMatFeatures}
  /\ has_callback = TRUE
  /\ BATCH \in 1..MaxBatch
  /\ fpc = "pending"
  /\ FeatLocals

\* Both materializers on one main group; the test `if vl:` of the
\* per-feature loop is followed on both of its branches.
NextMaterialize ==
  \/ NextBasemap
  \/ AddFeaturesCall /\ UNCHANGED restOfFeat
  \/ FeatStart /\ UNCHANGED restOfFeat
  \/ FeatBeginGroup /\ UNCHANGED restOfFeat
  \/ FeatSharedBatch /\ UNCHANGED restOfFeat
  \/ FeatSharedInsert /\ UNCHANGED restOfFeat
  \/ \E produced \in BOOLEAN :
       FeatLayerStepWith(produced) /\ UNCHANGED restOfFeat
  \/ FeatLayersEnd /\ UNCHANGED restOfFeat
  \/ FeatComplete /\ UNCHANGED restOfFeat

SpecMaterialize == InitMaterialize /\ [][NextMaterialize]_vars

NextUtils ==
  \/ ResolveTileUrl /\ UNCHANGED restOfUtil
  \/ ApplyStyleForAssetType /\ UNCHANGED restOfUtil
  \/ ApplyStreetviewStyle /\ UNCHANGED restOfUtil
  \/ CreateNodeFor /\ UNCHANGED restOfUtil
  \/ GetOrCreateGuestUuid /\ UNCHANGED restOfUtil

InitUtilCall ==
  InitLoad /\ InitFeatIdle /\ InitBasemapIdle /\ InitZoomIdle
    /\ InitPacerIdle /\ InitUtil

SpecUtils == InitUtilCall /\ [][NextUtils]_vars

NextZoom ==
  \/ ZoomToMainGroup /\ UNCHANGED restOfZoom
  \/ \E kind \in LayerKinds : VisitLayer(kind) /\ UNCHANGED restOfZoom
  \/ EnterSubgroup /\ UNCHANGED restOfZoom
  \/ LeaveSubgroup /\ UNCHANGED restOfZoom
  \/ ZoomApply /\ UNCHANGED restOfZoom

InitZoomCall ==
  InitLoad /\ InitFeatIdle /\ InitBasemapIdle /\ InitZoom /\ InitPacerIdle
    /\ InitUtilIdle

SpecZoom == InitZoomCall /\ [][NextZoom]_vars

NextPacer ==
  \/ Tick /\ UNCHANGED restOfPacer
  \/ \E args \in UpdateArgs, force \in BOOLEAN :
       UpdateCall(args, force) /\ UNCHANGED restOfPacer

InitPacerCall ==
  InitLoad /\ InitFeatIdle /\ InitBasemapIdle /\ InitZoomIdle /\ InitPacer
    /\ InitUtilIdle

SpecPacer == InitPacerCall /\ [][NextPacer]_vars

NextPacerRun ==
  \/ RunTick /\ UNCHANGED restOfPacer
  \/ \E args \in UpdateArgs : RunCall(args) /\ UNCHANGED restOfPacer

SpecPacerRun == InitPacerCall /\ [][NextPacerRun]_vars


\* ================================================================== claims
\* Entries of a task's log of one kind, in order.
LogOf(t, ev) ==
  LET is(e) == e.ev = ev IN SelectSeq(tlog[t], is)

\* Position of a step in the order Project, Basemap, Features.
Rank(step) ==
  CASE step = PROJECT -> 1
    [] step = BASEMAP_LAYERS -> 2
    [] step = FEATURES -> 3

\* Number of entries of one kind among the first k entries of a task's log.
CountUpTo(t, ev, k) == Cardinality({j \in 1..k : tlog[t][j].ev = ev})

\* C1: in every run the steps execute strictly in the order Project, Basemap,
\* Features: the request of a later step is issued only after the step-result
\* event (progress_data) of the step before it has been emitted, no step is
\* requested twice or out of order, and at no time are two requests of one
\* task in flight.
C1_StepsStrictlySequential ==
  \A t \in Tasks :
    LET log == tlog[t] IN
    /\ \A k \in 1..Len(log) :
         (log[k].ev = "request" /\ Rank(log[k].step) > 1) =>
           \E j \in 1..(k - 1) :
             /\ log[j].ev = "progress_data"
             /\ Rank(log[j].step) = Rank(log[k].step) - 1
    /\ \A k \in 1..Len(LogOf(t, "request")) :
         Rank(LogOf(t, "request")[k].step) = k
    /\ \A k \in 0..Len(log) :
         CountUpTo(t, "request", k) - CountUpTo(t, "response", k) \in {0, 1}
    /\ (tasks[t].pc = "inflight") <=>
         (Len(LogOf(t, "request")) = Len(LogOf(t, "response")) + 1)

\* C1 witness: a task has issued the request of its Features step.
C1_Witness ==
  \E t \in Tasks :
    /\ Len(LogOf(t, "request")) = 3
    /\ tasks[t].pc = "inflight"

\* C2: when a step fails (transport error, non-200 status, JSON decode error
\* or a falsy parsed result) nothing follows it in the run: no request of a
\* later step, no step-result event for the failing or a later step, and
\* run() returns False, so no success is reported.
C2_FailureSkipsTheRest ==
  \A t \in Tasks :
    \A k \in 1..Len(tlog[t]) :
      LET e == tlog[t][k] IN
      (e.ev = "response" /\ e.out # "ok") =>
        /\ k = Len(tlog[t])
        /\ tasks[t].result = "false"
        /\ tasks[t].pc \in {"returned", "finished"}
        /\ \A j \in 1..Len(tlog[t]) :
             tlog[t][j].ev \in {"request", "progress_data"} =>
               /\ Rank(tlog[t][j].step) <= Rank(e.step)
               /\ tlog[t][j].ev = "progress_data" =>
                    Rank(tlog[t][j].step) < Rank(e.step)
        /\ \A j \in 1..Len(uiQueue) :
             (uiQueue[j].task = t /\ uiQueue[j].sig = "progress_data") =>
               Rank(uiQueue[j].step) < Rank(e.step)
        /\ \A j \in 1..Len(task_done[t]) : ~task_done[t][j].success

\* C2 witness: the Basemap step of a run returned an empty list after the
\* Project step had succeeded, and the run has returned.
C2_Witness ==
  \E t \in Tasks :
    /\ Len(tlog[t]) > 0
    /\ LET e == tlog[t][Len(tlog[t])] IN
         e.ev = "response" /\ e.step = BASEMAP_LAYERS /\ e.out = "empty"
    /\ Len(LogOf(t, "progress_data")) = 1
    /\ tasks[t].pc = "finished"

\* C3: a run in which all three steps succeed emits exactly three step-result
\* events, (PROJECT, first element of the project response), (BASEMAP_LAYERS,
\* basemap list), (FEATURES, feature collection), in this order; the later
\* requests are built with the id of that first project element; and it is
\* followed by exactly one terminal event task_done(True, "Finished fetching
\* data"), emitted when no step result of the run is left undelivered.
C3_SuccessfulRunEvents ==
  \A t \in Tasks :
    /\ Len(task_done[t]) <= 1
    /\ tasks[t].result = "true" =>
         LET prog == LogOf(t, "progress_data")
             resp == LogOf(t, "response")
             reqs == LogOf(t, "request")
         IN
         /\ Len(prog) = 3
         /\ prog[1].step = PROJECT
         /\ prog[2].step = BASEMAP_LAYERS
         /\ prog[3].step = FEATURES
         /\ prog[1].value = resp[1].value.items[1]
         /\ prog[2].value = resp[2].value
         /\ prog[3].value = resp[3].value
         /\ reqs[2].pid = resp[1].value.items[1].id
         /\ reqs[3].pid = resp[1].value.items[1].id
         /\ tasks[t].pc = "finished" =>
              task_done[t] = <<[success |-> TRUE,
                                message |-> <<"Finished fetching data">>]>>
         /\ task_done[t] # <<>> =>
              \A j \in 1..Len(uiQueue) : uiQueue[j].task # t
    /\ \A j \in 1..Len(task_done[t]) :
         task_done[t][j].success => tasks[t].result = "true"

\* C3 witness: a run whose three steps succeeded has had its terminal event.
C3_Witness ==
  \E t \in Tasks :
    /\ tasks[t].result = "true"
    /\ tasks[t].pc = "finished"
    /\ Len(task_done[t]) = 1

\* C4: every run that ends in failure is surfaced as exactly one terminal
\* event task_done(False, message) whose message is the consolidated error of
\* the failing step, "Fetching <description> failed: <cause>"; the message of
\* a failure event is never absent.
C4_FailureHasMessage ==
  \A t \in Tasks :
    (tasks[t].pc = "finished" /\ tasks[t].result = "false") =>
      /\ Len(task_done[t]) = 1
      /\ ~task_done[t][1].success
      /\ LET m == task_done[t][1].message IN
           /\ Len(m) = 4
           /\ m[1] = "Fetching"
           /\ m[2] = Description(StepOrder[tasks[t].step])
           /\ m[3] = "failed:"


\* Materializations started with the feature payload of task t.
MaterializedOf(t) == {k \in 1..Len(matLog) : matLog[k].features.task = t}

\* C5: results are never merged across loads: whenever materialization is
\* invoked, the project payload, the basemap payload and the feature payload
\* it is given were all emitted by the same orchestration, also when a new
\* load is started while step results of the previous one are undelivered.
C5_NoMergedResults ==
  \A k \in 1..Len(matLog) :
    /\ matLog[k].project.task = matLog[k].features.task
    /\ matLog[k].basemap.task = matLog[k].features.task

\* C6: materialization starts only from a store holding a payload for each of
\* PROJECT, BASEMAP_LAYERS and FEATURES, all of one load; it starts exactly
\* once for a load whose fetch succeeded and never for one whose fetch failed;
\* the store is empty while a materialization runs and never keeps all three
\* payloads, so no payload is materialized twice.
C6_MaterializeOncePerLoad ==
  /\ \A k \in 1..Len(matLog) :
       /\ matLog[k].had = Steps
       /\ matLog[k].project.step = PROJECT
       /\ matLog[k].basemap.step = BASEMAP_LAYERS
       /\ matLog[k].features.step = FEATURES
       /\ matLog[k].project.task = matLog[k].features.task
       /\ matLog[k].basemap.task = matLog[k].features.task
  /\ \A j, k \in 1..Len(matLog) :
       j # k =>
         /\ matLog[j].project # matLog[k].project
         /\ matLog[j].basemap # matLog[k].basemap
         /\ matLog[j].features # matLog[k].features
  /\ \A t \in Tasks :
       /\ Cardinality(MaterializedOf(t)) <= 1
       /\ tasks[t].result = "false" => MaterializedOf(t) = {}
       /\ (tasks[t].result = "true" /\ tasks[t].pc = "finished") =>
            Cardinality(MaterializedOf(t)) = 1
       /\ MaterializedOf(t) # {} => tasks[t].result = "true"
  /\ matStack # <<>> => step_data = EmptyDict
  /\ ~(Steps \subseteq DOMAIN step_data)

\* C6 witness: two loads have succeeded one after the other and each has been
\* materialized.
C6_Witness ==
  /\ Len(matLog) = 2
  /\ matStack = <<>>
  /\ \A t \in Tasks : tasks[t].pc = "finished" /\ tasks[t].result = "true"

\* C7: cancellation is observed at step boundaries: once cancel has been
\* requested for a task that is between two steps, the request of the next
\* step is not issued.
C7_CancelObservedAtStepBoundary ==
  [][\A t \in Tasks :
       (cancelRequested[t] /\ tasks[t].pc = "ready") =>
         tasks'[t].pc # "inflight"]_vars


\* add_features_layers has ended, by returning or by an exception.
FeatEnded == fpc \in {"done", "raised"}

\* The features some registered layer holds.
Materialized ==
  UNION {{registered[k].feats[j] : j \in 1..Len(registered[k].feats)} :
           k \in 1..Len(registered)}

\* C8: for a materialization started with a completion callback the
\* completion signal fires exactly once, after the last asset group has been
\* processed, also for a collection without features or asset groups, and
\* never before or between asset groups.
C8_CompletionFiresExactlyOnce ==
  /\ ~FeatEnded => completions = 0
  /\ (FeatEnded /\ has_callback) =>
       /\ completions = 1
       /\ gi = Len(feature_groups)
       /\ processed = total_items
  /\ (FeatEnded /\ ~has_callback) => completions = 0

\* C9: a geometry that cannot be converted costs only its own feature, in
\* the shared-layer strategy and in the per-feature strategy: when the call
\* has ended, every feature with an asset and a convertible, non-empty
\* geometry is in a layer, every asset group has been processed, and the
\* completion signal has fired.
C9_BadGeometrySkipsOnlyItsFeature ==
  FeatEnded =>
    /\ fpc = "done"
    /\ \A i \in 1..Len(features) :
         (features[i].assets # <<>> /\ features[i].geometry = "ok") =>
           i \in Materialized
    /\ \A i \in 1..Len(features) :
         features[i].geometry = "bad" => i \notin Materialized
    /\ has_callback => completions = 1

\* The features of one asset type with a convertible, non-empty geometry, in
\* input order.
OkFeaturesOf(asset_type) ==
  LET idx == [i \in 1..Len(features) |-> i]
      ofType(i) == /\ features[i].assets # <<>>
                   /\ features[i].assets[1] = asset_type
                   /\ features[i].geometry = "ok"
  IN SelectSeq(idx, ofType)

\* The shared layers of one asset type among the children of the main group.
SharedLayersOf(asset_type) ==
  {k \in 1..Len(group_children) :
     /\ group_children[k].node = "layer"
     /\ group_children[k].asset_type = asset_type}

\* The shared-layer branch has run to its end for asset group g.
SharedGroupDone(g) == g < gi \/ (g = gi /\ fpc # "shared")

SubgroupsOf(asset_type) ==
  {k \in 1..Len(group_children) :
     /\ group_children[k].node = "group"
     /\ group_children[k].asset_type = asset_type}

\* The per-feature loop has run to its end for asset group g.
LayersGroupDone(g) == g < gi \/ (g = gi /\ fpc \in {"next", "done"})

Grouped ==
  UNION {{feature_groups[g].items[j].feat :
            j \in 1..Len(feature_groups[g].items)} :
           g \in 1..Len(feature_groups)}
Pending ==
  {layer_feats[j] : j \in 1..Len(layer_feats)}
    \cup UNION {{batch_layers[k].feats[j] :
                   j \in 1..Len(batch_layers[k].feats)} :
                  k \in 1..Len(batch_layers)}

\* C13: a feature whose asset list is empty or absent never appears in any
\* output: it is in no asset group, adds no geometry to a shared layer, gets
\* no layer of its own, and is not counted in the total used for progress.
C13_AssetlessFeatureNowhere ==
  /\ \A i \in 1..Len(features) :
       (~features[i].has_assets \/ features[i].assets = <<>>) =>
         /\ i \notin Grouped
         /\ i \notin Pending
         /\ i \notin Materialized
  /\ fpc # "start" =>
       total_items = Cardinality({i \in 1..Len(features) :
                        features[i].has_assets /\ features[i].assets # <<>>})
  /\ processed <= total_items

\* C13 witness: a call on a feature without the key "assets", a feature with
\* an empty asset list and an image feature has ended with one layer
\* holding the image feature only.
C13_Witness ==
  /\ fpc = "done"
  /\ Len(features) = 3
  /\ ~features[1].has_assets
  /\ features[2].has_assets /\ features[2].assets = <<>>
  /\ features[3].assets = <<"image">> /\ features[3].geometry = "ok"
  /\ total_items = 1
  /\ Materialized = {3}

\* C14: every feature with at least one asset is in exactly one asset group,
\* the group of the type of assets[0], whatever the types of its other
\* assets; the features of a group are in input order, and the asset paired
\* with a feature is assets[0].
C14_GroupedByFirstAsset ==
  fpc # "start" =>
    /\ \A i \in 1..Len(features) :
         (features[i].has_assets /\ features[i].assets # <<>>) =>
           /\ Cardinality({g \in 1..Len(feature_groups) :
                \E j \in 1..Len(feature_groups[g].items) :
                  feature_groups[g].items[j].feat = i}) = 1
           /\ \A g \in 1..Len(feature_groups) :
                feature_groups[g].asset_type = features[i].assets[1] =>
                  Cardinality({j \in 1..Len(feature_groups[g].items) :
                    feature_groups[g].items[j].feat = i}) = 1
    /\ \A g \in 1..Len(feature_groups) :
         LET items == feature_groups[g].items IN
         /\ items # <<>>
         /\ \A j \in 1..Len(items) :
              /\ items[j].asset = 1
              /\ features[items[j].feat].assets[1] =
                   feature_groups[g].asset_type
         /\ \A j, k \in 1..Len(items) :
              j < k => items[j].feat < items[k].feat
    /\ \A g, h \in 1..Len(feature_groups) :
         g # h =>
           feature_groups[g].asset_type # feature_groups[h].asset_type

\* C14 witness: a feature whose assets are a questionnaire and an image is in
\* the questionnaire group, next to an image group holding two features in
\* input order.
C14_Witness ==
  /\ fpc = "next"
  /\ Len(features) = 3
  /\ features[1].assets = <<"image">>
  /\ features[2].assets = <<"questionnaire", "image">>
  /\ features[3].assets = <<"image">>
  /\ Len(feature_groups) = 2
  /\ feature_groups[1].asset_type = "image"
  /\ feature_groups[1].items = <<[feat |-> 1, asset |-> 1],
                                 [feat |-> 3, asset |-> 1]>>
  /\ feature_groups[2].asset_type = "questionnaire"
  /\ feature_groups[2].items = <<[feat |-> 2, asset |-> 1]>>


\* The basemap layers of the main group from bottom to top.
BottomToTop ==
  [j \in 1..Len(base_children) |->
     base_children[Len(base_children) + 1 - j]]

\* C12: basemap descriptors are processed in ascending zIndex order, a
\* descriptor without zIndex counting as zIndex 0 and descriptors of equal
\* zIndex keeping their input order; the inserted layers, from bottom to top,
\* are the valid descriptors in that order, and each has the opacity declared
\* for it, 1.0 when none is declared.
C12_BasemapStackingAscending ==
  LET z(i) == IF layers[i].has_z THEN layers[i].zIndex ELSE 0
      before(i, k) == z(i) < z(k) \/ (z(i) = z(k) /\ i < k)
  IN
  bpc \in {"loop", "done"} =>
    /\ Len(sorted_layers) = Len(layers)
    /\ \A j, k \in 1..Len(sorted_layers) :
         j < k => before(sorted_layers[j], sorted_layers[k])
    /\ \A j, k \in 1..Len(BottomToTop) :
         j < k => before(BottomToTop[j].id, BottomToTop[k].id)
    /\ \A j \in 1..Len(BottomToTop) :
         LET d == layers[BottomToTop[j].id] IN
         /\ d.type = "tms"
         /\ BottomToTop[j].opacity = IF d.has_opacity THEN d.opacity ELSE 10
    /\ bpc = "done" =>
         {BottomToTop[j].id : j \in 1..Len(BottomToTop)} =
           {i \in 1..Len(layers) : layers[i].type = "tms"}

\* C12 witness: of three valid descriptors with zIndex 1, none and 0, the
\* one without zIndex is at the bottom, the one with zIndex 1 on top.
C12_Witness ==
  /\ bpc = "done"
  /\ Len(layers) = 3
  /\ \A i \in 1..3 : layers[i].type = "tms"
  /\ layers[1].has_z /\ layers[1].zIndex = 1
  /\ ~layers[2].has_z /\ layers[2].has_opacity
  /\ layers[3].has_z /\ layers[3].zIndex = 0 /\ ~layers[3].has_opacity
  /\ base_children = <<[id |-> 1, opacity |-> 10],
                       [id |-> 3, opacity |-> 10],
                       [id |-> 2, opacity |-> 5]>>


\* The extent, in the canvas CRS, of each layer that is a valid vector layer
\* with a non-empty extent whose transformation, if any, succeeds.
ExpectedExtent(kind) ==
  CASE kind = "vecA" -> Rect(0, 2, 0, 2)
    [] kind = "vecB" -> Rect(6, 8, 2, 10)
    [] kind = "noCrs" -> Rect(5, 6, -1, 1)

\* The layers visited so far, at any depth, that have such an extent.
VisitedContributing ==
  {ztree[j] : j \in 1..Len(ztree)} \cap {"vecA", "vecB", "noCrs"}

\* The layers visited so far, at any depth.
VisitedLayers == {ztree[j] : j \in 1..Len(ztree)} \ {"(", ")"}

\* The union bounding box of the expected extents of a set of layers.
UnionBox(kinds) ==
  LET least(S) == CHOOSE m \in S : \A x \in S : m <= x
      most(S) == CHOOSE m \in S : \A x \in S : m >= x
  IN IF kinds = {} THEN NoExtent
     ELSE Rect(least({ExpectedExtent(k).xmin : k \in kinds}),
               most({ExpectedExtent(k).xmax : k \in kinds}),
               least({ExpectedExtent(k).ymin : k \in kinds}),
               most({ExpectedExtent(k).ymax : k \in kinds}))

\* The last node visited (a layer, "(" or ")"), "" before the first.
LastVisited == IF ztree = <<>> THEN "" ELSE ztree[Len(ztree)]

\* C15: extent aggregation visits every descendant of the group at every
\* nesting depth: the running extent is always the union bounding box of the
\* extents (reprojected when the layer's CRS differs from the canvas CRS) of
\* the contributing vector layers visited so far, inside subgroups or not,
\* whatever their order; the extent applied to the canvas is that union over
\* the whole tree.
C15_AggregateIsUnionOverAllDepths ==
  /\ running_extent = UnionBox(VisitedContributing)
  /\ (zpc = "done" /\ VisitedContributing # {}) =>
       canvas_extent = UnionBox(VisitedContributing)

\* C15 witness: a vector layer in the group and a vector layer of another CRS
\* two subgroups down have been combined and applied to the canvas.
C15_Witness ==
  /\ zpc = "done"
  /\ ztree = <<"vecA", "(", "(", "vecB", ")", ")">>
  /\ canvas_extent = Rect(0, 8, 0, 10)

\* C16: only valid vector layers with a non-empty extent contribute: a
\* raster layer, an invalid layer and a layer with an empty extent leave the
\* running extent as it was, and a tree without any other layer yields no
\* extent.
C16_OnlyValidVectorContributes ==
  /\ LastVisited \in {"raster", "invalid", "point"} =>
       running_extent = zprev
  /\ VisitedLayers \subseteq {"raster", "invalid", "point"} =>
       running_extent = NoExtent
  /\ ~running_extent.none =>
       /\ ~isEmpty(running_extent)
       /\ running_extent.xmin >= 0
       /\ running_extent.xmax <= 8

\* C16 witness: a tree of raster layers and an invalid layer, in the group
\* and in a subgroup, has been walked without result.
C16_Witness ==
  /\ zpc = "done"
  /\ ztree = <<"raster", "(", "raster", "invalid", ")">>
  /\ running_extent = NoExtent

\* C17: a layer whose extent cannot be transformed is skipped: the running
\* extent stays as it was, and the layers before and after it, in the same
\* group and in other groups, are all in the result.
C17_TransformFailureSkipsLayer ==
  /\ LastVisited = "vecFail" => running_extent = zprev
  /\ "vecFail" \in VisitedLayers =>
       /\ \A k \in VisitedContributing :
            /\ ~running_extent.none
            /\ running_extent.xmin <= ExpectedExtent(k).xmin
            /\ running_extent.xmax >= ExpectedExtent(k).xmax
            /\ running_extent.ymin <= ExpectedExtent(k).ymin
            /\ running_extent.ymax >= ExpectedExtent(k).ymax
       /\ ~running_extent.none =>
            /\ VisitedContributing # {}
            /\ running_extent.xmin > -9
            /\ running_extent.ymin > -9

\* C17 witness: a layer before the failing one and a layer after it in the
\* same subgroup are both in the extent applied to the canvas.
C17_Witness ==
  /\ zpc = "done"
  /\ ztree = <<"vecA", "(", "vecFail", "vecB", ")">>
  /\ canvas_extent = Rect(0, 8, 0, 10)
  /\ refreshes = 1

\* C18: extent fitting changes the view only when the aggregate is not
\* empty: without a main group, or when no layer contributed, the canvas
\* extent is unchanged and no refresh is requested; otherwise the canvas gets
\* the aggregate and one refresh.
C18_ViewChangesOnlyForNonEmptyAggregate ==
  /\ zpc # "done" => (canvas_extent = InitialView /\ refreshes = 0)
  /\ zpc = "done" =>
       IF has_main_group /\ ~running_extent.none
         THEN canvas_extent = running_extent /\ refreshes = 1
         ELSE canvas_extent = InitialView /\ refreshes = 0
  /\ ~has_main_group => ztree = <<>>

\* C18 witness: the main group held only layers that do not contribute; the
\* zoom step has ended and the canvas is as it was.
C18_Witness ==
  /\ zpc = "done"
  /\ has_main_group
  /\ VisitedLayers = {"raster", "point"}
  /\ running_extent.none
  /\ canvas_extent = InitialView
  /\ refreshes = 0


\* What an update call did, read off its record.
Yielded(c) == c.yields_after = c.yields_before + 1
Invoked(c) == c.sink_after = c.sink_before + 1
NoEffect(c) ==
  /\ c.yields_after = c.yields_before
  /\ c.sink_after = c.sink_before
  /\ c.last_after = c.last_before

\* The update calls that invoked the sink, in order.
InvokingUpdates == SelectSeq(updates, Invoked)

\* C19: a non-forced update call invokes the sink or yields only if at least
\* the interval (0.3 s) has passed since every earlier call that invoked the
\* sink or yielded, and then it yields; any other non-forced call is dropped
\* without effect: no sink call, no yield, the reference time unmoved; the
\* sink receives exactly the arguments of the calls that passed, so what a
\* dropped call carried is never delivered later.
C19_NonForcedCallsThrottled ==
  /\ \A k \in 1..Len(updates) :
       LET c == updates[k] IN
       /\ Yielded(c) \/ NoEffect(c)
       /\ Invoked(c) => Yielded(c)
       /\ Yielded(c) => c.last_after = c.at
       /\ ~c.force =>
            /\ Yielded(c) <=> c.at - c.last_before >= 3
            /\ Yielded(c) =>
                 \A j \in 1..(k - 1) :
                   (Invoked(updates[j]) \/ Yielded(updates[j])) =>
                     c.at - updates[j].at >= 3
  /\ yields = Cardinality({k \in 1..Len(updates) : Yielded(updates[k])})
  /\ Len(sink_calls) = Len(InvokingUpdates)
  /\ \A k \in 1..Len(sink_calls) :
       LET c == InvokingUpdates[k] IN
       /\ sink_calls[k].msg = IF c.msg.none THEN "" ELSE c.msg.text
       /\ c.pct.none => sink_calls[k].pct = 0

\* C19 witness: a non-forced call 0.2 s after a forced one was dropped.
C19_Witness ==
  /\ progress_cb = "ok"
  /\ Len(updates) = 2
  /\ updates[1].force /\ Invoked(updates[1])
  /\ ~updates[2].force /\ ~updates[2].msg.none
  /\ updates[2].at = updates[1].at + 2
  /\ NoEffect(updates[2])
  /\ Len(sink_calls) = 1

C21_InvocationsBoundedByDuration ==
  updates # <<>> =>
    LET duration == updates[Len(updates)].at - updates[1].at
        bound == ((duration + 2) \div 3) + 1
    IN /\ duration = Len(updates) - 1
       /\ Len(sink_calls) <= bound
       /\ yields <= bound

\* C21 witness: seven calls one unit apart, each with a message or a
\* percent, have reached the bound of three sink invocations.
C21_Witness ==
  /\ progress_cb = "ok"
  /\ Len(updates) = 7
  /\ Len(sink_calls) = 3
  /\ yields = 3

\* The internal ids of the groups in a list of root children.
IdsOf(children) == {children[i].id : i \in 1..Len(children)} \ {0}

\* The layers below the groups in a list of root children.
LayersOf(children) == UNION {children[i].layers : i \in 1..Len(children)}

\* The entry of matLog made in the step of the create_main_group event e.
MatOfCreate(e) ==
  Cardinality({k \in EventsOf("create_main_group") : k <= e})

\* The create_main_group events of the load that task t fetched for.
GroupsCreatedFor(t) ==
  {e \in EventsOf("create_main_group") :
     /\ MatOfCreate(e) <= Len(matLog)
     /\ matLog[MatOfCreate(e)].features.task = t}

\* tree_log tells every change: each entry starts from what the one before
\* left, and the last one left what the root holds.
TreeLogComplete ==
  /\ root = IF tree_log = <<>> THEN <<>> ELSE tree_log[Len(tree_log)].after
  /\ \A k \in 1..Len(tree_log) :
       tree_log[k].before = IF k = 1 THEN <<>> ELSE tree_log[k - 1].after

\* C22: over any sequence of load requests every materialization creates
\* exactly one main group; a load whose three fetch steps succeeded gets
\* exactly one group and a load whose fetch failed gets none; and a group
\* leaves the root only in a load request made with "replace previous".
C22_OneMainGroupPerSuccessfulLoad ==
  /\ TreeLogComplete
  /\ Cardinality(EventsOf("create_main_group")) = Len(matLog)
  /\ \A e \in EventsOf("create_main_group") :
       /\ Len(tree_log[e].after) = Len(tree_log[e].before) + 1
       /\ IdsOf(tree_log[e].after) =
            IdsOf(tree_log[e].before) \cup {tree_log[e].result}
       /\ tree_log[e].result \notin IdsOf(tree_log[e].before)
  /\ \A t \in Tasks :
       /\ Cardinality(GroupsCreatedFor(t)) <= 1
       /\ tasks[t].result = "false" => GroupsCreatedFor(t) = {}
       /\ (tasks[t].result = "true" /\ tasks[t].pc = "finished") =>
            Cardinality(GroupsCreatedFor(t)) = 1
       /\ GroupsCreatedFor(t) # {} => tasks[t].result = "true"
  /\ \A k \in 1..Len(tree_log) :
       (\/ IdsOf(tree_log[k].before) \ IdsOf(tree_log[k].after) # {}
        \/ tree_log[k].unregistered # {}
        \/ Len(tree_log[k].after) < Len(tree_log[k].before)) =>
         /\ tree_log[k].op = "handle_load_request"
         /\ tree_log[k].args = <<TRUE>>

\* C22 witness: a first load succeeded, a second one was requested with
\* "replace previous" and removed the first group, then succeeded; the root
\* holds the second group alone.
C22_Witness ==
  /\ Len(tree_log) = 3
  /\ tree_log[2].op = "handle_load_request"
  /\ IdsOf(root) = {2}
  /\ \A t \in Tasks : tasks[t].pc = "finished" /\ tasks[t].result = "true"


\* C23: a call of remove_previous_main_group that changes the root removes
\* exactly one child: the first group whose internal id is the persisted
\* one, which is the group created last; it unregisters the layers of that
\* group and no others, leaves every other child where it was, and clears
\* the persisted id.  With no id persisted or no matching child the root is
\* not changed.
C23_ReplaceRemovesOnlyPersistedGroup ==
  /\ TreeLogComplete
  /\ \A k \in EventsOf("remove_previous_main_group") :
       LET e == tree_log[k] IN
       /\ e.persisted # 0
       /\ e.persisted_after = 0
       /\ \E i \in 1..Len(e.before) :
            /\ e.before[i].id = e.persisted
            /\ Len(e.after) = Len(e.before) - 1
            /\ \A j \in 1..Len(e.after) :
                 e.after[j] = e.before[IF j < i THEN j ELSE j + 1]
            /\ e.unregistered = e.before[i].layers
       /\ \E c \in EventsOf("create_main_group") :
            /\ c < k
            /\ tree_log[c].result = e.persisted
            /\ \A d \in EventsOf("create_main_group") : d < k => d <= c

\* C23 witness: the root held a group of the user, the group of the last
\* load with a layer in it and the group of an earlier load; the call
\* removed the group of the last load and its layer, and the other two stay.
C23_Witness ==
  /\ Len(tree_log) = MaxTreeEvents
  /\ tree_log[Len(tree_log)].op = "remove_previous_main_group"
  /\ Len(tree_log[Len(tree_log)].before) = 3
  /\ tree_log[Len(tree_log)].unregistered # {}
  /\ IdsOf(root) = {1}
  /\ Len(root) = 2
  /\ internal_group_uuid = 0

\* C24: every call create_main_group(name, uuid) puts exactly one new, empty
\* group at position 0 of the root and leaves the other children in place;
\* the group is named "<name> (<first 8 characters of uuid>)", tagged with
\* the project uuid and with an internal id no earlier group had; that id is
\* the persisted one afterwards, and the group is the one returned.
C24_CreateMainGroup ==
  \A k \in EventsOf("create_main_group") :
    LET e == tree_log[k]
        g == e.after[1]
        name == e.args[1]
        uuid == e.args[2]
        n == IF Len(uuid) < 8 THEN Len(uuid) ELSE 8
    IN
    /\ Len(e.after) = Len(e.before) + 1
    /\ \A j \in 1..Len(e.before) : e.after[j + 1] = e.before[j]
    /\ Len(g.name) = Len(name) + n + 3
    /\ \A j \in 1..Len(name) : g.name[j] = name[j]
    /\ g.name[Len(name) + 1] = " "
    /\ g.name[Len(name) + 2] = "("
    /\ \A j \in 1..n : g.name[Len(name) + 2 + j] = uuid[j]
    /\ g.name[Len(g.name)] = ")"
    /\ g.project_uuid = uuid
    /\ g.layers = {}
    /\ g.id # 0
    /\ \A j \in 1..(k - 1) :
         g.id \notin IdsOf(tree_log[j].before) \cup IdsOf(tree_log[j].after)
    /\ e.persisted_after = g.id
    /\ e.result = g.id
    /\ e.unregistered = {}

\* C24 witness: after a group was created and removed again, a group is
\* created for a project whose uuid has more than eight characters, on top
\* of a group of the user.
C24_Witness ==
  \E k \in EventsOf("create_main_group") :
    /\ Len(tree_log[k].args[2]) > 8
    /\ Len(tree_log[k].before) = 1
    /\ tree_log[k].before[1].id = 0
    /\ tree_log[k].result = 2
    /\ root = tree_log[k].after
    /\ internal_group_uuid = 2

\* C25: the request helper never lets an exception out.  A transport
\* error, a non-200 status and a body that is not JSON each end the run at
\* that request, without a step result, with self.error set to "Fetching
\* <description> failed: <cause>", the cause of a non-200 status naming the
\* status; a 200 response with valid JSON hands the parsed value on and
\* leaves self.error unset.
C25_RequestHelperNeverRaises ==
  \A t \in Tasks :
    LET log == tlog[t]
        failing == {k \in 1..Len(log) :
                      /\ log[k].ev = "response"
                      /\ log[k].out \in {"transport", "http", "json"}}
    IN
    /\ tasks[t].pc # "raised"
    /\ failing = {} => tasks[t].error = NoneStr
    /\ \A k \in failing :
         /\ k = Len(log)
         /\ log[k].value = None
         /\ Len(tasks[t].error) = 4
         /\ tasks[t].error[1] = "Fetching"
         /\ tasks[t].error[2] = Description(log[k].step)
         /\ tasks[t].error[3] = "failed:"
         /\ tasks[t].error[4] =
              (CASE log[k].out = "transport" -> "URLError"
                 [] log[k].out = "http" -> "HTTP 404"
                 [] log[k].out = "json" -> "JSONDecodeError")
    /\ \A k \in 1..Len(log) :
         (log[k].ev = "response" /\ log[k].out = "ok") =>
           /\ k < Len(log)
           /\ log[k + 1].ev = "progress_data"
           /\ log[k + 1].value =
                IF log[k].step = PROJECT THEN log[k].value.items[1]
                ELSE log[k].value

\* C25 witness: one run ended at a request answered with a non-200 status
\* and another at a request whose body was not JSON, each after a step that
\* had succeeded.
C25_Witness ==
  \E t, u \in Tasks :
    /\ Len(tlog[t]) > 0 /\ Len(tlog[u]) > 0
    /\ tlog[t][Len(tlog[t])].out = "http"
    /\ tlog[u][Len(tlog[u])].out = "json"
    /\ tlog[t][Len(tlog[t])].step # PROJECT
    /\ tlog[u][Len(tlog[u])].step # PROJECT
    /\ tasks[t].pc = "finished" /\ tasks[u].pc = "finished"

\* C26: basemap failures are isolated per descriptor: whatever goes wrong
\* with a descriptor (unsupported type, invalid layer, an exception while it
\* is processed), add_basemap_layers does not raise, and when it has ended
\* the valid descriptors, and only they, have been inserted.
C26_BasemapFailuresIsolated ==
  /\ bpc # "raised"
  /\ bpc = "done" =>
       {base_children[j].id : j \in 1..Len(base_children)} =
         {i \in 1..Len(layers) :
            layers[i].has_uiOptions /\ layers[i].type = "tms"}

\* C27: in the resolved connection target no subdomain placeholder is
\* left; the target of an arcgis descriptor whose URL neither contains
\* {z}/{x}/{y} nor ends with /tile/{z}/{y}/{x} is that URL without its
\* trailing slashes followed by /tile/{z}/{y}/{x}, and the descriptor is
\* used; resolving the resolved URL again gives the same URL.
C27_TileTargetResolved ==
  (util.fn = "resolve_tile_url" /\ util.returned) =>
    LET r == util.ret.first
        n == Len(r.url)
        templated ==
          \/ \E i \in 1..(n - 2) :
               /\ r.url[i] = "{z}" /\ r.url[i + 1] = "{x}"
               /\ r.url[i + 2] \in {"{y}", "{y}.png"}
          \/ /\ n >= 5
             /\ r.url[n - 3] = "tile" /\ r.url[n - 2] = "{z}"
             /\ r.url[n - 1] = "{y}" /\ r.url[n] = "{x}"
        m == Len(r.tile_url)
    IN
    /\ n = Len(util.args[2])
    /\ \A i \in 1..n :
         r.url[i] = (CASE util.args[2][i] = "{s}" -> "a"
                       [] util.args[2][i] = "{s}.h" -> "a.h"
                       [] OTHER -> util.args[2][i])
    /\ (util.args[1] = "arcgis" /\ ~templated) =>
         /\ r.used
         /\ m >= 5
         /\ r.tile_url[m - 3] = "tile" /\ r.tile_url[m - 2] = "{z}"
         /\ r.tile_url[m - 1] = "{y}" /\ r.tile_url[m] = "{x}"
         /\ r.tile_url[m - 4] # ""
         /\ \A i \in 1..(m - 4) : r.tile_url[i] = r.url[i]
         /\ \A i \in (m - 3)..n : r.url[i] = ""
    /\ util.ret.again.tile_url = r.tile_url
    /\ util.ret.again.used = r.used

\* C28: a valid layer of type point_cloud ends with the point-cloud fill
\* style, one of type image with the marker style, one of type streetview
\* with the default streetview line style, and one of any other type with
\* no style; the streetview style asked for with a variant other than
\* default, select and hover is the default variant.
C28_StyleByAssetType ==
  /\ (util.fn = "apply_style_for_asset_type" /\ util.returned) =>
       util.ret =
         (CASE util.args = "point_cloud" ->
                 [symbol |-> "fill", variant |-> "default"]
            [] util.args = "image" ->
                 [symbol |-> "marker", variant |-> "default"]
            [] util.args = "streetview" ->
                 [symbol |-> "line", variant |-> "default"]
            [] OTHER -> [symbol |-> "none", variant |-> "none"])
  /\ (util.fn = "apply_streetview_style" /\ util.returned) =>
       /\ util.ret.symbol = "line"
       /\ util.args \in {"default", "select", "hover"} =>
            util.ret.variant = util.args
       /\ util.args \notin {"default", "select", "hover"} =>
            util.ret.variant = "default"

\* C28 witness: the streetview style was asked for with the variant
\* "bright" and the layer has the default variant.
C28_Witness ==
  /\ util.fn = "apply_streetview_style"
  /\ util.returned
  /\ util.args = "bright"
  /\ util.ret = [symbol |-> "line", variant |-> "default"]

\* C29: the guest id is generated at most once, by the first call and only
\* when no usable value is persisted; every call returns the same value,
\* which is the persisted one from the first call on, so every request
\* carries the same X-Guest-Uuid.
C29_GuestUuidGeneratedOnce ==
  LET gen == {k \in 1..Len(guest_log) : guest_log[k].generated} IN
  /\ Cardinality(gen) <= 1
  /\ gen \subseteq {1}
  /\ guest_log # <<>> =>
       /\ guest_log[1].generated <=> guest_log[1].before \in {0, 0 - 1}
       /\ ~guest_log[1].generated => guest_log[1].header = guest_log[1].before
       /\ guest_log[1].header > 0
       /\ guest_uuid = guest_log[1].header
  /\ \A k \in 2..Len(guest_log) :
       /\ guest_log[k].header = guest_log[1].header
       /\ guest_log[k].before = guest_log[1].header

\* C29 witness: with an empty persisted value the first of three requests
\* generated the id, and the two later ones carried it.
C29_Witness ==
  /\ Len(guest_log) = MaxGuestCalls
  /\ guest_log[1].before = 0 - 1
  /\ guest_log[1].generated
  /\ guest_log[MaxGuestCalls].header = guest_log[1].header
  /\ guest_uuid = guest_log[1].header

\* C30: the six asset types of the table get their display names; any other
\* type gets its own characters, each underscore replaced by a space, the
\* first letter of every word in upper case and the letters after it in
\* lower case; the node created for the type, a shared layer for a
\* point-style type and a subgroup otherwise, carries that name.
C30_DisplayName ==
  (util.fn = "get_display_name" /\ util.returned) =>
    LET t == util.args
        name == util.ret.name
    IN
    /\ util.ret.asset_type = t
    /\ util.ret.node =
         IF t \in {"video", "image", "streetview"} THEN "layer" ELSE "group"
    /\ CASE t = "point_cloud" -> name = "Point Clouds"
         [] t = "image" -> name = "Images"
         [] t = "streetview" -> name = "StreetView"
         [] t = "video" -> name = "Videos"
         [] t = "questionnaire" -> name = "Questionnaires"
         [] t = "no_asset_vector" -> name = "Vector Features"
         [] OTHER ->
              LET c == Chars(t) IN
              /\ Len(name) = Len(c)
              /\ \A i \in 1..Len(c) :
                   IF c[i] = "_" THEN name[i] = " "
                   ELSE IF i = 1 \/ c[i - 1] = "_"
                     THEN name[i] = (IF c[i] \in {"a", "A"} THEN "A" ELSE "B")
                   ELSE name[i] = (IF c[i] \in {"a", "A"} THEN "a" ELSE "b")

\* C30 witness: the subgroup of the asset type "b_a_b" is named "B A B".
C30_Witness ==
  /\ util.fn = "get_display_name"
  /\ util.returned
  /\ util.args = "b_a_b"
  /\ util.ret.node = "group"
  /\ util.ret.name = <<"B", " ", "A", " ", "B">>

\* C31: for each step a run begins, exactly one RUNNING status event is
\* emitted, immediately before the step's single request; no step is
\* requested twice, a run issues at most three requests, and it has emitted
\* as many RUNNING status events as it has issued requests.
C31_OneStatusAndOneRequestPerStep ==
  \A t \in Tasks :
    LET log == tlog[t]
        reqs == {k \in 1..Len(log) : log[k].ev = "request"}
        stats == {k \in 1..Len(log) : log[k].ev = "status_update"}
    IN
    /\ Cardinality(reqs) <= 3
    /\ Cardinality(stats) = Cardinality(reqs)
    /\ \A k \in reqs :
         /\ k > 1
         /\ log[k - 1].ev = "status_update"
         /\ log[k - 1].step = log[k].step
    /\ \A k \in stats :
         /\ k < Len(log)
         /\ log[k + 1].ev = "request"
    /\ \A j, k \in reqs : log[j].step = log[k].step => j = k
    /\ \A j \in 1..Len(uiQueue) :
         (uiQueue[j].task = t /\ uiQueue[j].sig = "status_update") =>
           \E k \in stats : log[k].step = uiQueue[j].step

\* C31 witness: a run has issued its three requests, the last of which
\* failed, and has emitted three RUNNING status events.
C31_Witness ==
  \E t \in Tasks :
    /\ Cardinality({k \in 1..Len(tlog[t]) : tlog[t][k].ev = "request"}) = 3
    /\ Cardinality({k \in 1..Len(tlog[t]) :
                      tlog[t][k].ev = "status_update"}) = 3
    /\ tasks[t].result = "false"


\* C32: the change notification of the layer-tree root and of the new
\* subgroup is suppressed for the whole time the layers of a per-feature
\* asset type are being created and inserted, and re-enabled on both when
\* that group finishes, normally or by an exception: in every other position
\* of add_features_layers, and after it has ended, neither is blocked.
C32_SignalsBlockedOnlyWhileLayersInserted ==
  /\ fpc = "layers" =>
       /\ blocked = {"root", "subgroup"}
       /\ feature_groups[gi].asset_type \notin PointStyle
       /\ group_children[1].node = "group"
  /\ fpc # "layers" => blocked = {}

\* C32 witness: a per-feature group was left by an exception after a layer of
\* it had been inserted, and nothing is blocked.
C32_Witness ==
  /\ fpc = "raised"
  /\ blocked = {}
  /\ gi > 0
  /\ feature_groups[gi].asset_type \notin PointStyle
  /\ Len(group_children[1].children) > 0

\* The asset types of the features that carry an asset, in the order of
\* their first occurrence among the first n features.
RECURSIVE FirstOccurrences(_)
FirstOccurrences(n) ==
  IF n = 0 THEN <<>>
  ELSE LET before == FirstOccurrences(n - 1)
           f == features[n]
       IN IF ~f.has_assets \/ f.assets = <<>> THEN before
          ELSE IF \E k \in 1..Len(before) : before[k] = f.assets[1]
                 THEN before
                 ELSE Append(before, f.assets[1])

\* Number of features whose first asset is of one type.
SizeOfType(asset_type) ==
  Cardinality({i \in 1..Len(features) :
                 /\ features[i].has_assets
                 /\ features[i].assets # <<>>
                 /\ features[i].assets[1] = asset_type})

\* The batch reports of one point-style asset type, in order.
BatchReports(asset_type) ==
  LET of(c) == c.line = 315 /\ c.msg[1] = asset_type
  IN SelectSeq(progress_calls, of)

\* The asset type's shared layer has been inserted.
InsertionReported(asset_type) ==
  \E k \in 1..Len(progress_calls) :
    progress_calls[k].line = 327 /\ progress_calls[k].msg = <<asset_type>>

\* C33: each batch of a point-style group reports the percentage
\* floor(done * 100 / total), done being the number of the group's features
\* handled so far and total the group's size, so that the last batch reports
\* 100; every percentage handed to update_progress during materialization,
\* by add_basemap_layers and by add_features_layers, is -1 or an integer in
\* 0..100.
C33_ProgressPercentInRange ==
  /\ \A asset_type \in PointStyle :
       LET reports == BatchReports(asset_type)
           M == SizeOfType(asset_type)
           n == Len(reports)
       IN
       /\ \A k \in 1..n :
            LET done == IF k * BATCH < M THEN k * BATCH ELSE M IN
            /\ reports[k].msg = <<asset_type, done, M>>
            /\ reports[k].pct * M <= done * 100
            /\ (reports[k].pct + 1) * M > done * 100
       /\ InsertionReported(asset_type) =>
            /\ n > 0
            /\ reports[n].pct = 100
            /\ (n - 1) * BATCH < M
  /\ \A k \in 1..Len(progress_calls) :
       progress_calls[k].pct \in {-1} \cup 0..100
  /\ \A k \in 1..Len(base_progress) :
       base_progress[k].pct \in {-1} \cup 0..100

\* C33 witness: a point-style group of two features was handled in two
\* batches reporting 50 and 100, after a basemap layer had reported 50.
C33_Witness ==
  /\ fpc = "done"
  /\ \E asset_type \in PointStyle :
       /\ Len(BatchReports(asset_type)) = 2
       /\ BatchReports(asset_type)[1].pct = 50
       /\ BatchReports(asset_type)[2].pct = 100
  /\ \E k \in 1..Len(base_progress) : base_progress[k].pct = 50

\* C34: the success status ("Hazmapper map loaded successfully." with the
\* load controls re-enabled) is shown only after the load's materialization
\* has run to completion: in no interleaving of the task's terminal event
\* with the materialization and its cooperative yields is success displayed
\* while a materialization is in progress.
C34_SuccessOnlyAfterMaterialization ==
  (status = set_success(LoadedMessage) /\ ~loading) => matStack = <<>>

\* The changes of the root that a load request made by removing the previous
\* main group and that no creation of a main group has followed: they are
\* changes of the load requested last.
RemovalsOfLastRequest ==
  {k \in EventsOf("handle_load_request") :
     \A e \in EventsOf("create_main_group") : e < k}

\* C35: a load whose fetch phase fails leaves the layer tree exactly as it
\* was before the request, also when the request was made with "replace
\* previous": no group was created for it, and its request removed no
\* previously loaded group and unregistered none of its layers.
C35_FailedFetchLeavesTreeUntouched ==
  (active_task # 0 /\ tasks[active_task].result = "false") =>
    /\ GroupsCreatedFor(active_task) = {}
    /\ RemovalsOfLastRequest = {}

\* The load controls are disabled from the request of a load until its
\* task's terminal event has been handled.
ControlsDisabledWhileLoading ==
  (active_task # 0 /\ tasks[active_task].pc # "finished") => loading

\* Once the terminal event of the task of a load has been handled, the status
\* shows success or an error and the load controls are enabled.
TerminalDisplayReached ==
  (active_task # 0 /\ tasks[active_task].pc = "finished") =>
    /\ ~loading
    /\ status.icon \in {"success", "error"}

\* C36: every accepted load request reaches a terminal display state once its
\* task has terminated and its terminal event has been handled: the status
\* shows success or an error message and the load controls are enabled
\* again, for every way the fetch can end, a step that returns an empty
\* result included; from the request until then the controls stay disabled.
C36_LoadReachesTerminalDisplay ==
  /\ ControlsDisabledWhileLoading
  /\ TerminalDisplayReached

\* The registrations and insertions of a materialization, in order.
StoreEvents == base_events \o store_events

\* The layers among the children of a node list, subgroups included.
LeafLayers(children) ==
  {children[k] : k \in {j \in 1..Len(children) :
                          children[j].node = "layer"}}
    \cup UNION {{children[k].children[j] :
                   j \in 1..Len(children[k].children)} :
                  k \in {j \in 1..Len(children) : children[j].node = "group"}}

\* The per-feature loop of the asset group at hand has run to its end.
LayersLoopEnded ==
  \/ fpc \in {"next", "done"}
  \/ fpc = "layers" /\ bi > Len(feature_groups[gi].items)

\* C37: every layer inserted into the main group or a subgroup was
\* registered with the layer store before its insertion, every registered
\* layer is inserted exactly once and is in the tree, and when the
\* per-feature loop of an asset group has ended the pending batch is empty,
\* whatever the group size and the batch size, also when the last features
\* of the group produced no layer.
C37_RegisteredBeforeInsertedOnce ==
  LET ev == StoreEvents
      adds == {k \in 1..Len(ev) : ev[k].ev = "addMapLayer"}
      ins == {k \in 1..Len(ev) : ev[k].ev = "insertLayer"}
  IN
  /\ \A k \in ins : \E j \in adds : j < k /\ ev[j].layer = ev[k].layer
  /\ \A j \in adds :
       Cardinality({k \in ins : ev[k].layer = ev[j].layer}) = 1
  /\ \A j, k \in adds : ev[j].layer = ev[k].layer => j = k
  /\ LeafLayers(group_children) =
       {store_events[k].layer :
          k \in {j \in 1..Len(store_events) :
                   store_events[j].ev = "insertLayer"}}
  /\ {base_children[k] : k \in 1..Len(base_children)} =
       {base_events[k].layer :
          k \in {j \in 1..Len(base_events) :
                   base_events[j].ev = "insertLayer"}}
  /\ LayersLoopEnded => batch_layers = <<>>

\* C37 witness: a per-feature group of two features has ended with batch
\* size 2, its second feature having produced no layer: the first feature's
\* layer, pending until then, was registered and inserted at the last
\* feature, after a basemap layer had been registered and inserted.
C37_Witness ==
  /\ fpc = "done"
  /\ BATCH = 2
  /\ Len(feature_groups) = 1
  /\ feature_groups[1].asset_type \notin PointStyle
  /\ Len(feature_groups[1].items) = 2
  /\ Len(store_events) = 2
  /\ store_events[1].layer.feats = <<1>>
  /\ Len(base_events) = 2
  /\ batch_layers = <<>>

\* The top-level nodes of the main group that hold features, top first.
FeatureNodes ==
  LET holds(n) == n.node \in {"layer", "group"}
  IN SelectSeq(group_children, holds)

\* C38: in the main group of a finished load every feature layer and feature
\* subgroup is above every basemap layer, and the top-level feature nodes
\* are in the reverse of the order in which their asset types first occur in
\* the feature collection, one node (shared layer or subgroup) per asset
\* type.
C38_FeaturesAboveBasemapsReversed ==
  fpc = "done" =>
    LET types == FirstOccurrences(Len(features))
        n == Len(types)
    IN
    /\ \A j, k \in 1..Len(group_children) :
         (/\ group_children[j].node \in {"layer", "group"}
          /\ group_children[k].node = "raster") => j < k
    /\ Len(FeatureNodes) = n
    /\ \A k \in 1..n :
         /\ FeatureNodes[k].asset_type = types[n + 1 - k]
         /\ (FeatureNodes[k].node = "layer") <=>
              (types[n + 1 - k] \in PointStyle)
    /\ Len(group_children) = n + Len(base_children)
    /\ \A k \in 1..Len(base_children) :
         group_children[n + k] = RasterNode(base_children[k])

\* C38 witness: a load with two basemap layers, an image feature and then a
\* point_cloud feature has finished: the main group holds the Point Clouds
\* subgroup, the Images layer and the two basemap layers, in that order.
C38_Witness ==
  /\ fpc = "done"
  /\ Len(group_children) = 4
  /\ group_children[1].node = "group"
  /\ group_children[1].asset_type = "point_cloud"
  /\ group_children[2].node = "layer"
  /\ group_children[2].asset_type = "image"
  /\ group_children[3].node = "raster"
  /\ group_children[4].node = "raster"

\* C39: the map canvas is frozen and the project's signals are blocked only
\* while _process_all_steps is executing: whenever it has ended, by returning
\* or by an exception, the canvas is unfrozen, the signals are unblocked and
\* a canvas refresh has been requested for each call that ended.
C39_FrozenOnlyWhileProcessing ==
  /\ (canvas.frozen \/ canvas.signals_blocked) => matStack # <<>>
  /\ canvas.refreshes = Len(matLog) - Len(matStack)
  /\ matStack = <<>> =>
       /\ ~canvas.frozen
       /\ ~canvas.signals_blocked
       /\ matLog # <<>> => canvas.refreshes > 0

\* C39 witness: a _process_all_steps call was left by an exception (the
\* status still shows what it showed when the materialization began); the
\* canvas is unfrozen, the signals are unblocked and one refresh is requested.
C39_Witness ==
  /\ matStack = <<>>
  /\ Len(matLog) = 1
  /\ status = set_running(<<"Adding basemap layers...">>)
  /\ ~canvas.frozen
  /\ ~canvas.signals_blocked
  /\ canvas.refreshes = 1

\* The status a rejected load request leaves.
InvalidUrlStatus == set_error(<<"Invalid project URL format.">>)

\* C40: a load request whose URL has no "/project-public/" part is rejected
\* without side effects: the step that puts up "Invalid project URL format."
\* creates and starts no task, removes no group and unregisters no layer
\* even with "replace previous", leaves the stored step results, the current
\* project URL and the posted events as they were, and leaves the load
\* controls enabled.
C40_InvalidUrlRejectedWithoutEffects ==
  [][(status' = InvalidUrlStatus /\ (status # status' \/ loading # loading'))
       => /\ ~loading'
          /\ UNCHANGED <<taskVars, uiQueue, step_data, active_task,
                         current_project_url, matStack, matLog, canvas,
                         main_group, root, internal_group_uuid, map_layers,
                         tree_log>>]_vars

\* C40 witness: with the group of a finished load in the tree, a request
\* with a URL without "/project-public/" was rejected; the group is still
\* there, no second task exists and the URL of the first load is kept.
C40_Witness ==
  /\ status = InvalidUrlStatus
  /\ ~loading
  /\ NumTasks = 1
  /\ tasks[1].pc = "finished"
  /\ Len(root) = 1
  /\ internal_group_uuid # 0
  /\ current_project_url = ValidUrl
  /\ matStack = <<>>
====
